---- MODULE Spec2Model ----
(***************************************************************************)
(* Input interpretation core of copyclip-v1 (src-tauri): the mode manager  *)
(* (modes/manager.rs), the start/stop life cycle of the input-loop thread  *)
(* and the per-tick processing of gamepad input (gamepad_manager.rs).      *)
(* Times are milliseconds.                                                 *)
(***************************************************************************)
EXTENDS Integers, Sequences, FiniteSets, TLC

VARIABLES
    now,            \* the wall clock read by current_time_ms()
    mode_manager,   \* GamepadModeManager { state: ModeState, last_switch_time }
    calls,          \* the calls made on the mode manager so far: [op, arg, ret]
    running,        \* GamepadManager.running
    gilrs,          \* GamepadManager.gilrs, the slot of the hardware event source
    gamepads,       \* GamepadManager.gamepads: index -> Gamepad
    threads,        \* the input-loop threads spawned by start(), in spawn order
    starters,       \* the callers of start(): where each one is in start()
    n_start,        \* number of start() calls begun
    n_stop,         \* number of stop() calls made
    loop_started,   \* a start() has set the flag and no stop() was called since
    hw_log,         \* the hardware events raised so far, with their times
    drained,        \* for each event next_event() has handed to a loop thread, when
    dispatched,     \* the actions the loop has dispatched: [button, action, route, mode]
    profiles,       \* GamepadManager.profiles: name -> GamepadProfile
    active_profile, \* GamepadManager.active_profile: the name of the active profile
    db,             \* GamepadManager.db and the gamepad_profiles table behind it
    profile_call,   \* the last call of the profile API: [op, arg, db_ok, ret]; arg
                    \* is the profile passed, or [name] for a call by name
    emitter,        \* a call of a pointer emitter: its arguments and what it posted
    key_bindings,   \* a KeyBindingRegistry { bindings: HashMap<String, KeyBinding> }
    reg_log,        \* the add_binding / remove_binding / clear calls made on it
    reg_query,      \* the last read made on it: [op, arg, ret]
    locks,          \* the manager's mutexes: those poisoned, and those held by
                    \* a thread that will never release them
    gamepads_order, \* the order in which the gamepads map yields its keys
    gamepads_call   \* the last get_gamepads call: [op, ret]

modeVars == <<now, mode_manager, calls>>

lifeVars == <<running, gilrs, threads, starters, n_start, n_stop, loop_started>>

inputVars == <<gamepads, hw_log, drained, dispatched>>

profileVars == <<profiles, active_profile, db, profile_call>>

registryVars == <<key_bindings, reg_log, reg_query>>

managerVars == <<locks, gamepads_order, gamepads_call>>

vars == <<now, mode_manager, calls, running, gilrs, gamepads, threads, starters,
          n_start, n_stop, loop_started, hw_log, drained, dispatched,
          profiles, active_profile, db, profile_call, emitter, key_bindings,
          reg_log, reg_query, locks, gamepads_order, gamepads_call>>

----------------------------------------------------------------------------
(* Bounds of the model *)

\* the clock value at construction (the epoch clock is far past 50 ms)
StartTime == 1000
\* the clock stops advancing here
MaxTime == 1150
\* number of mode-manager calls explored from a fresh manager
MaxCalls == 3

\* calls of start() and of stop() explored
MaxStarts == 2
MaxStops == 2
\* hardware events raised
MaxHwEvents == 3
\* the clock stops advancing here while the loop is fed with button events
MaxInputTime == 1500

\* the loop is followed until it has made this many calls
MaxDispatched == 3

\* add_binding / remove_binding / clear calls explored on a fresh registry
MaxRegOps == 3

\* how far the clock may advance between two mode-manager calls
ClockSteps == {49, 50}
\* how far the clock may advance between two steps of the running loop
TickSteps == {100}
\* the threads that call start() concurrently
StartCallers == {1, 2}
\* the gamepads plugged in, and the buttons pressed on them
GamepadIds == {0}
\* the ids gilrs can report
PadIds == {0, 1}
HwButtons == {"South", "North", "RB"}

\* what an executor call can end with: Ok(Ok(())), Ok(Err(e)), Err(panic)
ActionOutcomes == {"Ok", "Err", "Panic"}

----------------------------------------------------------------------------
(* types/mode.rs *)

GamepadMode == {"Normal", "Motion", "Hotkey"}

ModeState_default ==
    [current |-> "Normal", previous |-> "Normal",
     transitioning |-> FALSE, activated_at |-> 0]

----------------------------------------------------------------------------
(* modes/manager.rs *)

min_switch_interval == 50

GamepadModeManager_new ==
    [state |-> ModeState_default, last_switch_time |-> 0]

current_mode(mm) == mm.state.current

previous_mode(mm) == mm.state.previous

is_transitioning(mm) == mm.state.transitioning

\* a mutant of Debounced: the comparison is off by one
Debounced_inclusive(mm, t) == t - mm.last_switch_time <= min_switch_interval

\* the debounce test of switch_mode, at clock reading t
Debounced(mm, t) == t - mm.last_switch_time < min_switch_interval

\* a mutant of switch_mode_ret: no debounce test
switch_mode_ret_no_debounce(mm, new_mode, t) == new_mode # mm.state.current

\* the value switch_mode returns
switch_mode_ret(mm, new_mode, t) ==
    IF Debounced(mm, t) THEN FALSE
    ELSE IF new_mode = mm.state.current THEN FALSE
    ELSE TRUE

\* a mutant of switch_accept: previous is not recorded
switch_accept_keeps_previous(mm, new_mode, t) ==
    [state |-> [current |-> new_mode,
                previous |-> mm.state.previous,
                transitioning |-> TRUE,
                activated_at |-> t],
     last_switch_time |-> t]

\* the assignments of an accepted switch_mode
switch_accept(mm, new_mode, t) ==
    [state |-> [current |-> new_mode,
                previous |-> mm.state.current,
                transitioning |-> TRUE,
                activated_at |-> t],
     last_switch_time |-> t]

\* a mutant of switch_mode: a rejected call restarts the debounce window
switch_mode_restarts_window(mm, new_mode, t) ==
    IF switch_mode_ret(mm, new_mode, t) THEN switch_accept(mm, new_mode, t)
    ELSE [mm EXCEPT !.last_switch_time = t]

\* the manager after switch_mode(new_mode) at clock reading t
switch_mode(mm, new_mode, t) ==
    IF switch_mode_ret(mm, new_mode, t) THEN switch_accept(mm, new_mode, t)
    ELSE mm

revert_mode_ret(mm, t) ==
    IF mm.state.previous # mm.state.current
    THEN switch_mode_ret(mm, mm.state.previous, t)
    ELSE FALSE

revert_mode(mm, t) ==
    IF mm.state.previous # mm.state.current
    THEN switch_mode(mm, mm.state.previous, t)
    ELSE mm

\* reset_to_normal discards the result of switch_mode
reset_to_normal(mm, t) == switch_mode(mm, "Normal", t)

\* get_state: a clone of the ModeState
get_state(mm) == mm.state

----------------------------------------------------------------------------
(* gamepad.rs *)

\* GamepadButtonIndex and the slot of each button in Gamepad.buttons
ButtonSlot ==
    [South |-> 0, East |-> 1, West |-> 2, North |-> 3, LB |-> 4, RB |-> 5,
     LT |-> 6, RT |-> 7, Select |-> 8, Start |-> 9, LeftStick |-> 10,
     RightStick |-> 11, Guide |-> 12, DPadUp |-> 13, DPadDown |-> 14,
     DPadLeft |-> 15, DPadRight |-> 16, A |-> 17, B |-> 18]

GamepadButtonIndex == DOMAIN ButtonSlot

GamepadAxisIndex ==
    [LeftStickX |-> 0, LeftStickY |-> 1, RightStickX |-> 2, RightStickY |-> 3]

\* Gamepad::new: connected, 32 released buttons, 4 centred axes.  A button is
\* its pressed flag (touched and value are written together with it); axis
\* values are hundredths.
Gamepad_new(index) ==
    [index |-> index, connected |-> TRUE,
     buttons |-> [i \in 0..31 |-> FALSE],
     axes |-> [i \in 0..3 |-> 0]]

get_button(gamepad, button) ==
    IF ButtonSlot[button] \in DOMAIN gamepad.buttons
    THEN gamepad.buttons[ButtonSlot[button]] ELSE FALSE

set_button(gamepad, button, pressed) ==
    IF ButtonSlot[button] < 32
    THEN [gamepad EXCEPT !.buttons[ButtonSlot[button]] = pressed]
    ELSE gamepad

get_axis(gamepad, axis) ==
    IF GamepadAxisIndex[axis] \in DOMAIN gamepad.axes
    THEN gamepad.axes[GamepadAxisIndex[axis]] ELSE 0

\* value.clamp(-1.0, 1.0), in hundredths
clamp(value) == IF value < -100 THEN -100 ELSE IF value > 100 THEN 100 ELSE value

\* a mutant of set_axis: the reading is stored as it comes
set_axis_unclamped(gamepad, axis, value) ==
    IF GamepadAxisIndex[axis] < 4
    THEN [gamepad EXCEPT !.axes[GamepadAxisIndex[axis]] = value]
    ELSE gamepad

set_axis(gamepad, axis, value) ==
    IF GamepadAxisIndex[axis] < 4
    THEN [gamepad EXCEPT !.axes[GamepadAxisIndex[axis]] = clamp(value)]
    ELSE gamepad

----------------------------------------------------------------------------
(* types/binding.rs, types/action.rs *)

SingleButton(button, input_type) ==
    [variant |-> "SingleButton", buttons |-> <<button>>,
     modifier |-> "None", input_type |-> input_type]

ModifiedButton(button, modifier, input_type) ==
    [variant |-> "ModifiedButton", buttons |-> <<button>>,
     modifier |-> modifier, input_type |-> input_type]

Chord(buttons) ==
    [variant |-> "Chord", buttons |-> buttons,
     modifier |-> "None", input_type |-> "Chord"]

Sequence(first, second, timeout_ms) ==
    [variant |-> "Sequence", buttons |-> <<first, second>>,
     modifier |-> "None", input_type |-> "Sequence", timeout_ms |-> timeout_ms]

\* InputPattern::contains_button: the single button, a member of the chord's
\* list, or the first or second button of a sequence
contains_button(pattern, button) ==
    \E i \in DOMAIN pattern.buttons : pattern.buttons[i] = button

\* an Action: its variant, and the payload of the variants that carry one
Action(kind) == [kind |-> kind, name |-> "", v |-> 0, h |-> 0]

KeyPress(key) == [kind |-> "KeyPress", name |-> key, v |-> 0, h |-> 0]

SwitchMode(mode) == [kind |-> "SwitchMode", name |-> mode, v |-> 0, h |-> 0]

Volume(kind, amount) == [kind |-> kind, name |-> "", v |-> amount, h |-> 0]

MouseScroll(vertical, horizontal) ==
    [kind |-> "MouseScroll", name |-> "", v |-> vertical, h |-> horizontal]

is_mode_switch(action) == action.kind = "SwitchMode"

\* KeyBinding::new(..).with_priority(..): enabled by default
\* InputTiming::default, in milliseconds
InputTiming_default ==
    [tap_threshold_ms |-> 150, double_tap_window_ms |-> 300,
     long_hold_threshold_ms |-> 500, sequence_timeout_ms |-> 2000,
     chord_window_ms |-> 100]

KeyBinding(pattern, action, mode, priority) ==
    [pattern |-> pattern, action |-> action, priority |-> priority,
     enabled |-> TRUE, mode |-> mode]

\* KeyBinding::with_enabled
with_enabled(binding, enabled) == [binding EXCEPT !.enabled = enabled]

\* format!("{pattern:?}"), the derived Debug rendering: the variant name, then
\* the fields in declaration order, a Vec element by element in its own order
pattern_key(pattern) ==
    CASE pattern.variant = "SingleButton" ->
           <<"SingleButton", "button", pattern.buttons[1],
             "input_type", pattern.input_type>>
      [] pattern.variant = "ModifiedButton" ->
           <<"ModifiedButton", "button", pattern.buttons[1],
             "modifier", pattern.modifier, "input_type", pattern.input_type>>
      [] pattern.variant = "Chord" ->
           <<"Chord", "buttons">> \o pattern.buttons
      [] pattern.variant = "Sequence" ->
           <<"Sequence", "first", pattern.buttons[1], "second", pattern.buttons[2],
             "timeout_ms", pattern.timeout_ms>>

KeyBindingRegistry_new == [k \in {} |-> 0]

\* an insert that keeps the binding already stored under the key
add_binding_keeps_first(registry, binding) ==
    [k \in DOMAIN registry \cup {pattern_key(binding.pattern)} |->
        IF k \in DOMAIN registry THEN registry[k] ELSE binding]

\* a registry is the map from pattern keys to bindings
add_binding(registry, binding) ==
    [k \in DOMAIN registry \cup {pattern_key(binding.pattern)} |->
        IF k = pattern_key(binding.pattern) THEN binding ELSE registry[k]]

has_binding(registry, pattern) == pattern_key(pattern) \in DOMAIN registry

get_binding(registry, pattern) == registry[pattern_key(pattern)]

\* remove_binding: the map without the key, and the binding removed if any
remove_binding(reg, pattern) ==
    [registry |-> [k \in DOMAIN reg \ {pattern_key(pattern)} |-> reg[k]],
     ret |-> IF has_binding(reg, pattern) THEN <<get_binding(reg, pattern)>>
             ELSE <<>>]

\* get_binding as an Option: <<>> is None
get_binding_opt(reg, pattern) ==
    IF has_binding(reg, pattern) THEN <<get_binding(reg, pattern)>> ELSE <<>>

\* clear
clear(reg) == KeyBindingRegistry_new

\* len
len(reg) == Cardinality(DOMAIN reg)

\* the orders in which HashMap::values may iterate the keys
RECURSIVE value_orders(_)
value_orders(keys) ==
    IF keys = {} THEN {<<>>}
    ELSE UNION {{<<k>> \o rest : rest \in value_orders(keys \ {k})} : k \in keys}

\* a filter on the button alone
RECURSIVE filter_matching_any(_, _, _)
filter_matching_any(reg, order, button) ==
    IF order = <<>> THEN <<>>
    ELSE LET b == reg[Head(order)]
             rest == filter_matching_any(reg, Tail(order), button)
         IN IF contains_button(b.pattern, button)
            THEN <<b>> \o rest ELSE rest

\* .filter(|b| b.pattern.contains_button(button) && b.enabled)
RECURSIVE filter_matching(_, _, _)
filter_matching(reg, order, button) ==
    IF order = <<>> THEN <<>>
    ELSE LET b == reg[Head(order)]
             rest == filter_matching(reg, Tail(order), button)
         IN IF contains_button(b.pattern, button) /\ b.enabled
            THEN <<b>> \o rest ELSE rest

\* insertion of b into a list sorted by |a, b| b.priority.cmp(&a.priority),
\* after the elements that do not compare greater (sort_by is stable)
RECURSIVE sort_insert(_, _)
sort_insert(sorted, b) ==
    IF sorted = <<>> THEN <<b>>
    ELSE IF Head(sorted).priority >= b.priority
         THEN <<Head(sorted)>> \o sort_insert(Tail(sorted), b)
         ELSE <<b>> \o sorted

RECURSIVE sort_by_priority(_, _)
sort_by_priority(sorted, list) ==
    IF list = <<>> THEN sorted
    ELSE sort_by_priority(sort_insert(sorted, Head(list)), Tail(list))

\* bindings_for_button, for one iteration order of the map
bindings_for_button(reg, order, button) ==
    sort_by_priority(<<>>, filter_matching(reg, order, button))

RECURSIVE add_all(_, _)
add_all(registry, bindings) ==
    IF bindings = <<>> THEN registry
    ELSE add_all(add_binding(registry, Head(bindings)), Tail(bindings))

----------------------------------------------------------------------------
(* modes/normal.rs, modes/motion.rs, modes/hotkey.rs, modes/mod.rs *)

build_normal_mode_bindings ==
    add_all(KeyBindingRegistry_new, <<
        KeyBinding(SingleButton("South", "Tap"), Action("MouseClick"), "Normal", 50),
        KeyBinding(SingleButton("East", "Tap"), KeyPress("Escape"), "Normal", 50),
        KeyBinding(SingleButton("West", "Tap"), Action("MouseRightClick"), "Normal", 50),
        KeyBinding(SingleButton("North", "Hold"), SwitchMode("Hotkey"), "Normal", 70),
        KeyBinding(SingleButton("North", "Tap"), Action("AppLauncher"), "Normal", 50),
        KeyBinding(SingleButton("DPadUp", "Tap"), Volume("VolumeUp", 10), "Normal", 50),
        KeyBinding(SingleButton("DPadDown", "Tap"), Volume("VolumeDown", 10), "Normal", 50),
        KeyBinding(ModifiedButton("DPadLeft", "Alt", "Tap"), Action("AppPrevious"), "Normal", 50),
        KeyBinding(ModifiedButton("DPadRight", "Alt", "Tap"), Action("AppNext"), "Normal", 50),
        KeyBinding(SingleButton("LB", "Hold"), Action("AppSwitcher"), "Normal", 60),
        KeyBinding(Chord(<<"RB", "North">>), SwitchMode("Motion"), "Normal", 70),
        KeyBinding(SingleButton("LT", "Tap"), Action("MouseClick"), "Normal", 40),
        KeyBinding(SingleButton("RT", "Tap"), Action("MouseRightClick"), "Normal", 40),
        KeyBinding(SingleButton("Guide", "LongHold"), Action("AppLauncher"), "Normal", 75),
        KeyBinding(SingleButton("Select", "Tap"), KeyPress("F1"), "Normal", 50),
        KeyBinding(SingleButton("LeftStick", "Tap"), Action("Screenshot"), "Normal", 50),
        KeyBinding(SingleButton("RightStick", "Tap"), Action("NoOp"), "Normal", 30)
    >>)

build_motion_mode_bindings ==
    add_all(KeyBindingRegistry_new, <<
        KeyBinding(SingleButton("South", "Tap"), Action("MouseClick"), "Motion", 50),
        KeyBinding(SingleButton("East", "Tap"), KeyPress("Escape"), "Motion", 50),
        KeyBinding(SingleButton("West", "Tap"), Action("MouseRightClick"), "Motion", 50),
        KeyBinding(SingleButton("North", "Tap"), Action("MouseDoubleClick"), "Motion", 50),
        KeyBinding(SingleButton("DPadUp", "Tap"), MouseScroll(-5, 0), "Motion", 50),
        KeyBinding(SingleButton("DPadDown", "Tap"), MouseScroll(5, 0), "Motion", 50),
        KeyBinding(SingleButton("DPadLeft", "Tap"), MouseScroll(0, -5), "Motion", 50),
        KeyBinding(SingleButton("DPadRight", "Tap"), MouseScroll(0, 5), "Motion", 50),
        KeyBinding(SingleButton("LT", "Hold"), KeyPress("MouseDrag"), "Motion", 60),
        KeyBinding(SingleButton("RT", "Hold"), KeyPress("SlowMode"), "Motion", 60),
        KeyBinding(SingleButton("Select", "Tap"), KeyPress("CycleSensitivity"), "Motion", 50),
        KeyBinding(Chord(<<"RB", "North">>), SwitchMode("Normal"), "Motion", 70)
    >>)

build_hotkey_mode_bindings ==
    add_all(KeyBindingRegistry_new, <<
        KeyBinding(Chord(<<"LB", "North">>), SwitchMode("Normal"), "Hotkey", 75),
        KeyBinding(SingleButton("East", "Tap"), KeyPress("Escape"), "Hotkey", 50),
        KeyBinding(SingleButton("South", "Tap"), Action("NoOp"), "Hotkey", 30),
        KeyBinding(SingleButton("West", "Tap"), Action("NoOp"), "Hotkey", 30)
    >>)

get_mode_bindings(mode) ==
    CASE mode = "Normal" -> build_normal_mode_bindings
      [] mode = "Motion" -> build_motion_mode_bindings
      [] mode = "Hotkey" -> build_hotkey_mode_bindings

----------------------------------------------------------------------------
(* gamepad_manager.rs: the maps *)

EmptyMap == [k \in {} |-> 0]

map_insert(map, key, value) ==
    [k \in DOMAIN map \cup {key} |-> IF k = key THEN value ELSE map[k]]

map_remove(map, key) == [k \in DOMAIN map \ {key} |-> map[k]]

\* the loop's HashMap<(usize, GamepadButtonIndex), bool>: every key maps to
\* <<>> (no entry) or <<pressed>>
button_state_new == [id \in PadIds |-> [b \in GamepadButtonIndex |-> <<>>]]

\* button_state.insert(key, pressed)
button_state_insert(button_state, key, pressed) ==
    [button_state EXCEPT ![key[1]][key[2]] = <<pressed>>]

\* button_state.get(&key).copied().unwrap_or(false)
was_pressed(button_state, key) ==
    IF button_state[key[1]][key[2]] = <<>> THEN FALSE
    ELSE button_state[key[1]][key[2]][1]

\* map_button_to_gamepad: the gilrs buttons that have a GamepadButtonIndex
map_button_to_gamepad ==
    {"South", "East", "West", "North", "LT", "RT", "LB", "RB", "Select",
     "Start", "LeftStick", "RightStick", "Guide", "DPadUp", "DPadDown",
     "DPadLeft", "DPadRight"}

\* map_axis_to_gamepad: the gilrs axes that have a GamepadAxisIndex
map_axis_to_gamepad == {"LeftStickX", "LeftStickY", "RightStickX", "RightStickY"}

all_buttons ==
    <<"South", "East", "West", "North", "LB", "RB", "LT", "RT", "DPadUp",
      "DPadDown", "DPadLeft", "DPadRight", "Select", "Start", "LeftStick",
      "RightStick">>

----------------------------------------------------------------------------
(* gamepad_manager.rs: the event drain of the loop (start, lines 156-229) *)

\* ButtonPressed / ButtonReleased: the snapshot's slot and the loop's
\* last_button_state entry are both written
drain_button(st, e, pressed) ==
    IF e.id \in DOMAIN st.gamepads /\ e.button \in map_button_to_gamepad
    THEN [gamepads |-> [st.gamepads EXCEPT ![e.id] = set_button(@, e.button, pressed)],
          last_button_state |->
              button_state_insert(st.last_button_state, <<e.id, e.button>>, pressed)]
    ELSE st

\* one event of the drain; st = [gamepads, last_button_state]
drain_event(st, e) ==
    CASE e.type = "Connected" ->
            [st EXCEPT !.gamepads = map_insert(@, e.id, Gamepad_new(e.id))]
      [] e.type = "Disconnected" ->
            [st EXCEPT !.gamepads = map_remove(@, e.id)]
      [] e.type = "AxisChanged" ->
            IF e.id \in DOMAIN st.gamepads /\ e.button \in map_axis_to_gamepad
            THEN [st EXCEPT !.gamepads[e.id] = set_axis(@, e.button, e.value)]
            ELSE st
      [] e.type = "ButtonPressed" -> drain_button(st, e, TRUE)
      [] e.type = "ButtonReleased" -> drain_button(st, e, FALSE)
      [] OTHER -> st

RECURSIVE drain_events(_, _)
drain_events(st, events) ==
    IF events = <<>> THEN st
    ELSE drain_events(drain_event(st, Head(events)), Tail(events))

----------------------------------------------------------------------------
(* gamepad_manager.rs: process_gamepad_input (lines 440-634) *)

\* (v * 10.0) as i32 for a stick value v in hundredths: truncation toward zero
stick_delta(v) == IF v >= 0 THEN (v * 10) \div 100 ELSE -(((-v) * 10) \div 100)

\* the shared locks the loop thread holds when it makes a call of this kind:
\* the gamepads guard g lives from line 445 to the end of the function; the
\* mode-manager guard is taken at line 456, dropped at 606 before
\* execute_action and taken again at 625
locks_held(route) ==
    IF route = "execute_action" THEN {"gamepads"} ELSE {"gamepads", "mode_state"}

\* one call made by process_gamepad_input: to the emitter, to the executor or
\* to the mode manager; result is the outcome of an executor call
Emit(route, action, button, ret, mode) ==
    [route |-> route, action |-> action, button |-> button, ret |-> ret,
     mode |-> mode, locks |-> locks_held(route), result |-> "none"]

\* phase 1: the left stick moves the cursor, the right stick scrolls
phase1(gamepad, mode) ==
    LET stick_x == get_axis(gamepad, "LeftStickX")
        stick_y == get_axis(gamepad, "LeftStickY")
        stick_x_right == get_axis(gamepad, "RightStickX")
        stick_y_right == get_axis(gamepad, "RightStickY")
        abs(v) == IF v < 0 THEN -v ELSE v
        move == IF abs(stick_x) > 5 \/ abs(stick_y) > 5
                THEN <<Emit("mouse_move_relative",
                            [kind |-> "MouseMove", name |-> "",
                             v |-> stick_delta(stick_x), h |-> -stick_delta(stick_y)],
                            "LeftStick", TRUE, mode)>>
                ELSE <<>>
        scroll == IF abs(stick_x_right) > 5 \/ abs(stick_y_right) > 5
                  THEN <<Emit("scroll",
                              MouseScroll(stick_delta(stick_y_right),
                                          stick_delta(stick_x_right)),
                              "RightStick", TRUE, mode)>>
                  ELSE <<>>
    IN move \o scroll

\* a phase 2 that hands the RB+Y switch to the executor as an action
phase2_mode_switching_via_executor(gamepad, acc, cur_mode, t) ==
    LET rb_pressed == get_button(gamepad, "RB")
        lb_pressed == get_button(gamepad, "LB")
        north_pressed == get_button(gamepad, "North")
        north_was_pressed ==
            was_pressed(acc.last_button_state, <<gamepad.index, "North">>)
        a1 == IF rb_pressed /\ north_pressed /\ north_pressed /\ ~north_was_pressed
              THEN [acc EXCEPT
                      !.out = Append(@, Emit("execute_action", SwitchMode("Motion"),
                                             "RB+Y", TRUE, cur_mode))]
              ELSE acc
        a2 == IF lb_pressed /\ north_pressed /\ north_pressed /\ ~north_was_pressed
              THEN [a1 EXCEPT
                      !.mm = switch_mode(@, "Hotkey", t),
                      !.out = Append(@, Emit("switch_mode", SwitchMode("Hotkey"), "LB+Y",
                                             switch_mode_ret(a1.mm, "Hotkey", t),
                                             cur_mode))]
              ELSE a1
        a3 == IF /\ cur_mode # "Normal"
                 /\ rb_pressed /\ north_pressed
                 /\ ~north_pressed /\ north_was_pressed
              THEN [a2 EXCEPT
                      !.mm = reset_to_normal(@, t),
                      !.out = Append(@, Emit("switch_mode", SwitchMode("Normal"), "RB+Y release",
                                             switch_mode_ret(a2.mm, "Normal", t),
                                             cur_mode))]
              ELSE a2
    IN a3

\* phase 2, mode switching: the hard-wired RB+Y and LB+Y combinations and the
\* exit to Normal; acc = [mm, last_button_state, out, outcome, panicked]
phase2_mode_switching(gamepad, acc, cur_mode, t) ==
    LET rb_pressed == get_button(gamepad, "RB")
        lb_pressed == get_button(gamepad, "LB")
        north_pressed == get_button(gamepad, "North")
        north_was_pressed ==
            was_pressed(acc.last_button_state, <<gamepad.index, "North">>)
        a1 == IF rb_pressed /\ north_pressed /\ north_pressed /\ ~north_was_pressed
              THEN [acc EXCEPT
                      !.mm = switch_mode(@, "Motion", t),
                      !.out = Append(@, Emit("switch_mode", SwitchMode("Motion"), "RB+Y",
                                             switch_mode_ret(acc.mm, "Motion", t),
                                             cur_mode))]
              ELSE acc
        a2 == IF lb_pressed /\ north_pressed /\ north_pressed /\ ~north_was_pressed
              THEN [a1 EXCEPT
                      !.mm = switch_mode(@, "Hotkey", t),
                      !.out = Append(@, Emit("switch_mode", SwitchMode("Hotkey"), "LB+Y",
                                             switch_mode_ret(a1.mm, "Hotkey", t),
                                             cur_mode))]
              ELSE a1
        a3 == IF /\ cur_mode # "Normal"
                 /\ rb_pressed /\ north_pressed
                 /\ ~north_pressed /\ north_was_pressed
              THEN [a2 EXCEPT
                      !.mm = reset_to_normal(@, t),
                      !.out = Append(@, Emit("switch_mode", SwitchMode("Normal"), "RB+Y release",
                                             switch_mode_ret(a2.mm, "Normal", t),
                                             cur_mode))]
              ELSE a2
    IN a3

\* a mutant of execute_action_caught: a panic of the action is not caught and
\* unwinds the loop thread
execute_action_uncaught(acc, action, button_idx, cur_mode) ==
    [acc EXCEPT
        !.out = Append(@, [Emit("execute_action", action, button_idx, TRUE, cur_mode)
                           EXCEPT !.result = acc.outcome]),
        !.panicked = @ \/ acc.outcome = "Panic"]

\* lines 604-626: the mode-manager guard is dropped, execute_action runs
\* inside catch_unwind, its three outcomes Ok(Ok), Ok(Err) and Err (panic) are
\* logged, and the guard is taken again
execute_action_caught(acc, action, button_idx, cur_mode) ==
    [acc EXCEPT
        !.out = Append(@, [Emit("execute_action", action, button_idx, TRUE, cur_mode)
                           EXCEPT !.result = acc.outcome])]

\* a mutant of dispatch_binding: the registry is the one of the mode the
\* manager is in when the button is reached
dispatch_binding_live_mode(gamepad, acc, cur_mode, button_idx, t) ==
    LET bindings == get_mode_bindings(current_mode(acc.mm))
        button_pressed == get_button(gamepad, button_idx)
        button_was_pressed ==
            was_pressed(acc.last_button_state, <<gamepad.index, button_idx>>)
        pattern == SingleButton(button_idx, "Tap")
    IN  IF button_pressed /\ ~button_was_pressed /\ has_binding(bindings, pattern)
        THEN LET action == get_binding(bindings, pattern).action IN
             IF is_mode_switch(action)
             THEN [acc EXCEPT
                     !.mm = switch_mode(@, action.name, t),
                     !.out = Append(@, Emit("switch_mode", action, button_idx,
                                            switch_mode_ret(acc.mm, action.name, t),
                                            current_mode(acc.mm)))]
             ELSE execute_action_caught(acc, action, button_idx, current_mode(acc.mm))
        ELSE acc

\* the rising-edge branch of the button loop (lines 583-629): look up the
\* button's Tap pattern in the registry of the tick's mode and dispatch it
dispatch_binding(gamepad, acc, cur_mode, button_idx, t) ==
    LET bindings == get_mode_bindings(cur_mode)
        button_pressed == get_button(gamepad, button_idx)
        button_was_pressed ==
            was_pressed(acc.last_button_state, <<gamepad.index, button_idx>>)
        pattern == SingleButton(button_idx, "Tap")
    IN  IF button_pressed /\ ~button_was_pressed /\ has_binding(bindings, pattern)
        THEN LET action == get_binding(bindings, pattern).action IN
             IF is_mode_switch(action)
             THEN [acc EXCEPT
                     !.mm = switch_mode(@, action.name, t),
                     !.out = Append(@, Emit("switch_mode", action, button_idx,
                                            switch_mode_ret(acc.mm, action.name, t),
                                            cur_mode))]
             ELSE execute_action_caught(acc, action, button_idx, cur_mode)
        ELSE acc

\* one iteration of the button loop (lines 566-632)
button_step(gamepad, acc, cur_mode, button_idx, t) ==
    LET rb_pressed == get_button(gamepad, "RB")
        lb_pressed == get_button(gamepad, "LB")
    IN  IF /\ cur_mode # "Normal"
           /\ \/ rb_pressed /\ button_idx = "North"
              \/ lb_pressed /\ button_idx = "North"
        THEN acc
        ELSE [dispatch_binding(gamepad, acc, cur_mode, button_idx, t) EXCEPT
                !.last_button_state =
                    button_state_insert(@, <<gamepad.index, button_idx>>,
                                        get_button(gamepad, button_idx))]

RECURSIVE button_loop(_, _, _, _, _)
button_loop(gamepad, acc, cur_mode, buttons, t) ==
    IF buttons = <<>> THEN acc
    ELSE button_loop(gamepad,
                     button_step(gamepad, acc, cur_mode, Head(buttons), t),
                     cur_mode, Tail(buttons), t)

\* a mutant of process_gamepad_input: the buttons are handled before the sticks
process_gamepad_input_buttons_first(gamepad, button_state, mm, t, outcome) ==
    LET acc0 == [mm |-> mm, last_button_state |-> button_state, out |-> <<>>,
                 outcome |-> outcome, panicked |-> FALSE] IN
    IF ~gamepad.connected THEN acc0
    ELSE LET cur_mode == current_mode(mm)
             acc2 == phase2_mode_switching(gamepad, acc0, cur_mode, t)
             acc3 == button_loop(gamepad, acc2, cur_mode, all_buttons, t)
         IN [acc3 EXCEPT !.out = @ \o phase1(gamepad, cur_mode)]

\* process_gamepad_input on the gamepad that values().next() yields, at clock
\* reading t, when the executor calls of the tick end with outcome; the result
\* is [mm, last_button_state, out, outcome, panicked], panicked telling whether
\* a panic left the function
process_gamepad_input(gamepad, button_state, mm, t, outcome) ==
    LET acc0 == [mm |-> mm, last_button_state |-> button_state, out |-> <<>>,
                 outcome |-> outcome, panicked |-> FALSE] IN
    IF ~gamepad.connected THEN acc0
    ELSE LET cur_mode == current_mode(mm)
             acc1 == [acc0 EXCEPT !.out = phase1(gamepad, cur_mode)]
             acc2 == phase2_mode_switching(gamepad, acc1, cur_mode, t)
         IN button_loop(gamepad, acc2, cur_mode, all_buttons, t)

----------------------------------------------------------------------------
(* The state after construction *)

\* a caller of start() that is not inside start()
----------------------------------------------------------------------------
(* scroll.rs and actions/mouse.rs: the pointer emitters.  The platform is   *)
(* chosen by the build (cfg(target_os)); os_ok says whether the platform's  *)
(* event source (CGEventSource::new, the xdotool command) is available.     *)

Platforms == {"macos", "windows", "linux"}

abs_i32(n) == IF n < 0 THEN -n ELSE n

\* an OS input event posted by an emitter
OsEvent(api, axis, amount) == [api |-> api, axis |-> axis, amount |-> amount]

Repeat(n, e) == [i \in 1..n |-> e]

\* macos::scroll, one axis: (value.abs() / 120).max(1) posts of one notch of 120
\* wheel units in the direction of the sign
macos_scroll_axis(axis, value, os_ok) ==
    IF value # 0 /\ os_ok
    THEN LET n == abs_i32(value) \div 120
             notches == IF n < 1 THEN 1 ELSE n
             direction == IF value > 0 THEN 1 ELSE -1
         IN Repeat(notches, OsEvent("CGEvent", axis, 120 * direction))
    ELSE <<>>

\* windows::scroll, one axis: one mouse_event of (value * 120 / 10) as u32.  The
\* cast keeps the 32-bit word, which mouse_event reads as a signed wheel
\* amount; the word is written here by its signed value.
windows_scroll_axis(axis, value) ==
    IF value # 0
    THEN LET q == abs_i32(value * 120) \div 10
         IN <<OsEvent("mouse_event", axis, IF value > 0 THEN q ELSE -q)>>
    ELSE <<>>

\* linux::scroll, one axis: value.abs() xdotool clicks of the wheel button
linux_scroll_axis(axis, value) ==
    IF value # 0
    THEN Repeat(abs_i32(value), OsEvent("xdotool click", axis,
                                    IF value > 0 THEN 1 ELSE -1))
    ELSE <<>>

\* scroll::scroll(vertical, horizontal): the events posted and the result
scroll_scroll(platform, os_ok, vertical, horizontal) ==
    CASE platform = "macos" ->
           [posted |-> macos_scroll_axis("vertical", vertical, os_ok)
                       \o macos_scroll_axis("horizontal", horizontal, os_ok),
            ret |-> "Ok"]
      [] platform = "windows" ->
           [posted |-> windows_scroll_axis("vertical", vertical)
                       \o windows_scroll_axis("horizontal", horizontal),
            ret |-> "Ok"]
      [] platform = "linux" ->
           IF (vertical # 0 \/ horizontal # 0) /\ ~os_ok
           THEN [posted |-> <<>>, ret |-> "Err"]
           ELSE [posted |-> linux_scroll_axis("vertical", vertical)
                            \o linux_scroll_axis("horizontal", horizontal),
                 ret |-> "Ok"]

\* actions::mouse::scroll: nothing for (0, 0), else scroll::scroll
mouse_scroll(platform, os_ok, vertical, horizontal) ==
    IF vertical = 0 /\ horizontal = 0
    THEN [posted |-> <<>>, ret |-> "Ok"]
    ELSE scroll_scroll(platform, os_ok, vertical, horizontal)

\* actions::mouse::move_cursor: nothing for (0, 0); macOS posts nothing at all
move_cursor(platform, os_ok, dx, dy) ==
    IF dx = 0 /\ dy = 0 THEN [posted |-> <<>>, ret |-> "Ok"]
    ELSE CASE platform = "macos" -> [posted |-> <<>>, ret |-> "Ok"]
           [] platform = "windows" ->
                [posted |-> <<OsEvent("mouse_event", "move", <<dx, dy>>)>>,
                 ret |-> "Ok"]
           [] platform = "linux" ->
                IF os_ok
                THEN [posted |-> <<OsEvent("xdotool mousemove", "move", <<dx, dy>>)>>,
                      ret |-> "Ok"]
                ELSE [posted |-> <<>>, ret |-> "Err"]

\* actions/system.rs set_volume(level): the level is clamped to 0..100; the
\* macOS build runs osascript "set volume output volume <clamped>", the
\* Windows and Linux builds only log it.  volume is the level of the OS.
set_volume(platform, os_ok, volume, level) ==
    LET lo == IF level > 0 THEN level ELSE 0
        clamped == IF lo < 100 THEN lo ELSE 100
    IN IF platform = "macos"
       THEN IF os_ok
            THEN [posted |-> <<OsEvent("osascript", "volume", clamped)>>,
                  ret |-> "Ok", volume |-> clamped]
            ELSE [posted |-> <<>>, ret |-> "Err", volume |-> volume]
       ELSE [posted |-> <<>>, ret |-> "Ok", volume |-> volume]

\* actions/system.rs play_pause_media: osascript on macOS, a log line elsewhere
play_pause_media(platform, os_ok, volume) ==
    IF platform = "macos"
    THEN IF os_ok
         THEN [posted |-> <<OsEvent("osascript", "playpause", 0)>>,
               ret |-> "Ok", volume |-> volume]
         ELSE [posted |-> <<>>, ret |-> "Err", volume |-> volume]
    ELSE [posted |-> <<>>, ret |-> "Ok", volume |-> volume]

\* actions/keyboard.rs press_key: one osascript / PowerShell / xdotool command;
\* Err when the command cannot be run
press_key(platform, os_ok, volume, key_name) ==
    IF os_ok
    THEN [posted |-> <<OsEvent("key", key_name, 0)>>, ret |-> "Ok", volume |-> volume]
    ELSE [posted |-> <<>>, ret |-> "Err", volume |-> volume]

\* Result::ok() followed by Ok(()): the emitter's result is dropped
ok_discard(r) == [r EXCEPT !.ret = "Ok"]

\* the MediaNext / MediaPrevious / MediaStop arms (executor.rs:68-82)
media_key(platform, os_ok, volume, key_name) ==
    ok_discard(press_key(platform, os_ok, volume, key_name))

\* the VolumeUp / VolumeDown arms (executor.rs:13-18): the amount, negated for
\* VolumeDown, is passed to set_volume as the level
volume_arm(platform, os_ok, volume, amount) ==
    set_volume(platform, os_ok, volume, amount)

\* actions/executor.rs execute_action: the arm of the action; emitted is the
\* emitter call made ("none" for the arms that only log) and its result
execute_action(platform, os_ok, volume, action) ==
    LET with(emitter_fn, r) ==
            [emitted |-> <<[fn |-> emitter_fn, ret |-> r.ret]>>,
             posted |-> r.posted, ret |-> r.ret, volume |-> r.volume]
        without == [emitted |-> <<>>, posted |-> <<>>, ret |-> "Ok",
                    volume |-> volume]
    IN CASE action.kind = "VolumeUp" ->
              with("system::set_volume",
                   volume_arm(platform, os_ok, volume, action.v))
         [] action.kind = "VolumeDown" ->
              with("system::set_volume",
                   volume_arm(platform, os_ok, volume, -action.v))
         [] action.kind = "MediaPlayPause" ->
              with("system::play_pause_media",
                   play_pause_media(platform, os_ok, volume))
         [] action.kind \in {"MediaNext", "MediaPrevious", "MediaStop"} ->
              LET r == media_key(platform, os_ok, volume, action.kind)
              IN [emitted |-> <<[fn |-> "keyboard::press_key",
                                 ret |-> press_key(platform, os_ok, volume,
                                                   action.kind).ret]>>,
                  posted |-> r.posted, ret |-> r.ret, volume |-> r.volume]
         [] action.kind = "KeyPress" ->
              with("keyboard::press_key",
                   press_key(platform, os_ok, volume, action.name))
         [] action.kind = "MouseMove" ->
              LET r == move_cursor(platform, os_ok, action.v, action.h)
              IN with("mouse::move_cursor",
                      [posted |-> r.posted, ret |-> r.ret, volume |-> volume])
         [] action.kind = "MouseScroll" ->
              LET r == mouse_scroll(platform, os_ok, action.v, action.h)
              IN with("mouse::scroll",
                      [posted |-> r.posted, ret |-> r.ret, volume |-> volume])
         [] action.kind \in {"ScreenRecording", "WindowSnap", "WindowCycle",
                             "SwitchMode", "NoOp"} -> without

\* the emitter entry points
EmitterFns == {"scroll::scroll", "mouse::scroll", "mouse::move_cursor"}

emitter_call(fn, platform, os_ok, a, b) ==
    CASE fn = "scroll::scroll" -> scroll_scroll(platform, os_ok, a, b)
      [] fn = "mouse::scroll" -> mouse_scroll(platform, os_ok, a, b)
      [] fn = "mouse::move_cursor" -> move_cursor(platform, os_ok, a, b)

\* no emitter call is being followed
Emitter_idle == [pc |-> "idle"]

----------------------------------------------------------------------------
\* gamepad.rs: GamepadProfile, the fields the pointer translation is specified
\* over; sensitivity, dead_zone and acceleration are hundredths
GamepadProfile(name, sensitivity, dead_zone, acceleration) ==
    [name |-> name, sensitivity |-> sensitivity, dead_zone |-> dead_zone,
     acceleration |-> acceleration]

\* impl Default for GamepadProfile
GamepadProfile_default == GamepadProfile("Default", 100, 10, 100)

\* GamepadManager::new: the profile cache holds the default profile
default_profiles == map_insert(EmptyMap, "Default", GamepadProfile_default)

\* a set_active_profile that accepts every name
set_active_profile_ret_unchecked(cache, profile_name) == "Ok"

\* GamepadManager::set_active_profile: Err when the cache has no such profile
set_active_profile_ret(cache, profile_name) ==
    IF profile_name \notin DOMAIN cache THEN "Err" ELSE "Ok"

\* the store: GamepadManager.db is None until set_database; rows is the
\* gamepad_profiles table, keyed by name
Db_new == [available |-> FALSE, rows |-> EmptyMap]

\* the fields serde needs to build a GamepadProfile (no field has a default)
ProfileFields ==
    {"name", "description", "sensitivity", "dead_zone", "acceleration",
     "button_map", "axis_map", "enabled_features", "scroll_settings",
     "dpad_mapping"}

\* db.rs get_gamepad_profiles: one JSON object per row, of the selected columns
DbColumns ==
    {"name", "description", "sensitivity", "dead_zone", "acceleration",
     "button_map", "axis_map", "enabled_features"}

get_gamepad_profiles(rows) ==
    {[fields |-> DbColumns, value |-> rows[name]] : name \in DOMAIN rows}

\* serde_json::from_value::<GamepadProfile>: Err (<<>>) on a missing field
from_value(json) ==
    IF ProfileFields \subseteq json.fields THEN <<json.value>> ELSE <<>>

\* load_profiles_from_db: with the store available and the query answered,
\* the cache is cleared but for "Default" and refilled with the rows that
\* deserialize
load_profiles_from_db(cache, store, db_ok) ==
    IF store.available /\ db_ok
    THEN LET kept == IF "Default" \in DOMAIN cache
                     THEN map_insert(EmptyMap, "Default", cache["Default"])
                     ELSE EmptyMap
             loaded == {from_value(json)[1] :
                          json \in {j \in get_gamepad_profiles(store.rows) :
                                       from_value(j) # <<>>}}
         IN [name \in DOMAIN kept \cup {q.name : q \in loaded} |->
                IF \E q \in loaded : q.name = name
                THEN CHOOSE q \in loaded : q.name = name
                ELSE kept[name]]
    ELSE cache

\* save_profile: the cache write, then the store write when a store is set;
\* the store's result is dropped and Ok returned
save_profile(cache, store, profile, db_ok) ==
    [profiles |-> map_insert(cache, profile.name, profile),
     db |-> IF store.available /\ db_ok
            THEN [store EXCEPT !.rows = map_insert(@, profile.name, profile)]
            ELSE store,
     ret |-> "Ok"]

\* delete_profile: Err for "Default"; else the cache entry goes, then the row
\* when a store is set; the store's result is dropped and Ok returned
delete_profile(cache, store, profile_name, db_ok) ==
    IF profile_name = "Default"
    THEN [profiles |-> cache, db |-> store, ret |-> "Err"]
    ELSE [profiles |-> IF profile_name \in DOMAIN cache
                       THEN map_remove(cache, profile_name) ELSE cache,
          db |-> IF store.available /\ db_ok /\ profile_name \in DOMAIN store.rows
                 THEN [store EXCEPT !.rows = map_remove(@, profile_name)]
                 ELSE store,
          ret |-> "Ok"]

\* get_profiles: reloads when the cache is empty and a store is set
get_profiles(cache, store, db_ok) ==
    IF DOMAIN cache = {} THEN load_profiles_from_db(cache, store, db_ok)
    ELSE cache

\* no call of the profile API has been made
ProfileCall_idle == [op |-> "none"]

\* no read of the registry has been made
Query_idle == [op |-> "none"]

\* the Arc<Mutex<..>> fields of GamepadManager
ManagerLocks ==
    {"gamepads", "profiles", "active_profile", "running", "gilrs", "db",
     "mode_manager"}

\* after new(): no mutex is poisoned, none is held
Locks_new == [poisoned |-> {}, stuck |-> {}]

\* lock().unwrap(): a panic when the mutex is poisoned
lock_unwrap(l, name) == IF name \in l.poisoned THEN "Panic" ELSE "Guard"

\* what locking a mutex the thread already holds can do (std::sync::Mutex)
RelockOutcomes == {"Deadlock", "RelockPanic"}

\* no call of get_gamepads has been made
GamepadsCall_idle == [op |-> "none"]

Starter_idle == [pc |-> "idle", is_running |-> FALSE, result |-> "none", call |-> 0]

Init ==
    /\ now = StartTime
    /\ mode_manager = GamepadModeManager_new
    /\ calls = <<>>
    /\ running = FALSE
    /\ gilrs = "Some"
    /\ gamepads = EmptyMap
    /\ threads = <<>>
    /\ starters = [c \in StartCallers |-> Starter_idle]
    /\ n_start = 0
    /\ n_stop = 0
    /\ loop_started = FALSE
    /\ hw_log = <<>>
    /\ drained = <<>>
    /\ dispatched = <<>>
    /\ profiles = default_profiles
    /\ active_profile = "Default"
    /\ db = Db_new
    /\ profile_call = ProfileCall_idle
    /\ emitter = Emitter_idle
    /\ key_bindings = KeyBindingRegistry_new
    /\ reg_log = <<>>
    /\ reg_query = Query_idle
    /\ locks = Locks_new
    /\ gamepads_order = <<>>
    /\ gamepads_call = GamepadsCall_idle

----------------------------------------------------------------------------
(* The mode manager driven by its callers *)

\* time passes between two calls
ClockAdvance ==
    \E d \in ClockSteps :
        /\ now + d <= MaxTime
        /\ now' = now + d
        /\ UNCHANGED <<managerVars, profileVars, emitter, registryVars, mode_manager, calls, lifeVars, inputVars>>

CallSwitchMode ==
    \E m \in GamepadMode :
        /\ Len(calls) < MaxCalls
        /\ mode_manager' = switch_mode(mode_manager, m, now)
        /\ calls' = Append(calls, [op |-> "switch_mode", arg |-> m,
                                   ret |-> switch_mode_ret(mode_manager, m, now)])
        /\ UNCHANGED <<managerVars, profileVars, emitter, registryVars, now, lifeVars, inputVars>>

CallRevertMode ==
    /\ Len(calls) < MaxCalls
    /\ mode_manager' = revert_mode(mode_manager, now)
    /\ calls' = Append(calls, [op |-> "revert_mode", arg |-> "none",
                               ret |-> revert_mode_ret(mode_manager, now)])
    /\ UNCHANGED <<managerVars, profileVars, emitter, registryVars, now, lifeVars, inputVars>>

CallResetToNormal ==
    /\ Len(calls) < MaxCalls
    /\ mode_manager' = reset_to_normal(mode_manager, now)
    /\ calls' = Append(calls, [op |-> "reset_to_normal", arg |-> "none",
                               ret |-> FALSE])
    /\ UNCHANGED <<managerVars, profileVars, emitter, registryVars, now, lifeVars, inputVars>>

NextMode ==
    \/ ClockAdvance
    \/ CallSwitchMode
    \/ CallRevertMode
    \/ CallResetToNormal

SpecMode == Init /\ [][NextMode]_vars

\* the read operations (&self): current_mode, previous_mode, is_transitioning,
\* get_state
ModeReads ==
    [current_mode |-> current_mode(mode_manager),
     previous_mode |-> previous_mode(mode_manager),
     is_transitioning |-> is_transitioning(mode_manager),
     get_state |-> get_state(mode_manager)]

CallRead ==
    \E op \in DOMAIN ModeReads :
        /\ Len(calls) < MaxCalls
        /\ calls' = Append(calls, [op |-> op, arg |-> "none", ret |-> ModeReads[op]])
        /\ UNCHANGED <<managerVars, profileVars, emitter, registryVars, now, mode_manager,
                       lifeVars, inputVars>>

NextModeReads ==
    \/ ClockAdvance
    \/ CallSwitchMode
    \/ CallRevertMode
    \/ CallResetToNormal
    \/ CallRead

SpecModeReads == Init /\ [][NextModeReads]_vars

----------------------------------------------------------------------------
(* gamepad_manager.rs: start, stop and the input-loop thread *)

\* the closure's state when thread::spawn creates the thread
\* (late_ticks: ticks begun while the flag was clear; tick_at: the clock at
\* the thread's latest tick; both are history, the code does not keep them)
Thread_new ==
    [pc |-> "take", gilrs_instance |-> FALSE, last_button_state |-> button_state_new,
     late_ticks |-> 0, tick_at |-> 0]

\* a mutant of StartCheck: start() does not look at the running flag
StartCheck_unguarded(c) ==
    /\ starters[c].pc = "idle"
    /\ n_start < MaxStarts
    /\ n_start' = n_start + 1
    /\ starters' = [starters EXCEPT ![c] =
            [pc |-> "set", is_running |-> FALSE, result |-> "none", call |-> n_start + 1]]
    /\ UNCHANGED <<managerVars, profileVars, emitter, registryVars, running, gilrs, gamepads, threads, n_stop, loop_started,
                   hw_log, drained, dispatched, modeVars>>

\* start(), lines 124-128: read the running flag; Err when it is set
StartCheck(c) ==
    /\ starters[c].pc = "idle"
    /\ n_start < MaxStarts
    /\ n_start' = n_start + 1
    /\ starters' = [starters EXCEPT ![c] =
            IF running
            THEN [pc |-> "idle", is_running |-> TRUE, result |-> "Err", call |-> n_start + 1]
            ELSE [pc |-> "set", is_running |-> FALSE, result |-> "none", call |-> n_start + 1]]
    /\ UNCHANGED <<managerVars, profileVars, emitter, registryVars, running, gilrs, gamepads, threads, n_stop, loop_started,
                   hw_log, drained, dispatched, modeVars>>

\* start(), line 131: set the running flag (a second lock acquisition)
StartSet(c) ==
    /\ starters[c].pc = "set"
    /\ running' = TRUE
    /\ starters' = [starters EXCEPT ![c].pc = "spawn"]
    /\ threads' = [t \in DOMAIN threads |-> [threads[t] EXCEPT !.late_ticks = 0]]
    /\ loop_started' = TRUE
    /\ UNCHANGED <<managerVars, profileVars, emitter, registryVars, gilrs, gamepads, n_start, n_stop,
                   hw_log, drained, dispatched, modeVars>>

\* start(), lines 133-240: spawn the loop thread and return Ok
StartSpawn(c) ==
    /\ starters[c].pc = "spawn"
    /\ threads' = Append(threads, Thread_new)
    /\ starters' = [starters EXCEPT ![c].pc = "idle", ![c].result = "Ok"]
    /\ UNCHANGED <<managerVars, profileVars, emitter, registryVars, running, gilrs, gamepads, n_start, n_stop, loop_started,
                   hw_log, drained, dispatched, modeVars>>

\* stop(), lines 244-248
Stop ==
    /\ n_stop < MaxStops
    /\ n_stop' = n_stop + 1
    /\ running' = FALSE
    /\ loop_started' = FALSE
    /\ UNCHANGED <<managerVars, profileVars, emitter, registryVars, gilrs, gamepads, threads, starters, n_start,
                   hw_log, drained, dispatched, modeVars>>

\* thread body, lines 139-143: take the event source out of the slot
LoopTake(t) ==
    /\ threads[t].pc = "take"
    /\ IF gilrs = "Some"
       THEN /\ gilrs' = "None"
            /\ threads' = [threads EXCEPT ![t].pc = "check", ![t].gilrs_instance = TRUE]
       ELSE /\ gilrs' = gilrs
            /\ threads' = [threads EXCEPT ![t].pc = "exited"]
    /\ UNCHANGED <<managerVars, profileVars, emitter, registryVars, running, gamepads, starters, n_start, n_stop, loop_started,
                   hw_log, drained, dispatched, modeVars>>

\* a mutant of LoopCheck: the loop never looks at the running flag
LoopCheck_never_stops(t) ==
    /\ threads[t].pc = "check"
    /\ threads' = [threads EXCEPT ![t].pc = "drain"]
    /\ UNCHANGED <<managerVars, profileVars, emitter, registryVars, running, gilrs, gamepads, starters, n_start, n_stop,
                   loop_started, hw_log, drained, dispatched, modeVars>>

\* loop head, line 150: read the running flag
LoopCheck(t) ==
    /\ threads[t].pc = "check"
    /\ threads' = [threads EXCEPT ![t].pc = IF running THEN "drain" ELSE "release"]
    /\ UNCHANGED <<managerVars, profileVars, emitter, registryVars, running, gilrs, gamepads, starters, n_start, n_stop,
                   loop_started, hw_log, drained, dispatched, modeVars>>

\* a mutant of LoopRelease: the thread leaves the loop with the event source
LoopRelease_drops(t) ==
    /\ threads[t].pc = "release"
    /\ threads' = [threads EXCEPT ![t].pc = "exited", ![t].gilrs_instance = FALSE]
    /\ UNCHANGED <<managerVars, profileVars, emitter, registryVars, running, gilrs,
                   gamepads, starters, n_start, n_stop, loop_started,
                   hw_log, drained, dispatched, modeVars>>

\* lines 151-153: put the event source back and leave the loop
LoopRelease(t) ==
    /\ threads[t].pc = "release"
    /\ gilrs' = "Some"
    /\ threads' = [threads EXCEPT ![t].pc = "exited", ![t].gilrs_instance = FALSE]
    /\ UNCHANGED <<managerVars, profileVars, emitter, registryVars, running, gamepads, starters, n_start, n_stop, loop_started,
                   hw_log, drained, dispatched, modeVars>>

\* lines 156-229: handle every pending event
LoopDrain(t) ==
    /\ threads[t].pc = "drain"
    /\ LET st == drain_events([gamepads |-> gamepads,
                               last_button_state |-> threads[t].last_button_state],
                              SubSeq(hw_log, Len(drained) + 1, Len(hw_log)))
       IN /\ gamepads' = st.gamepads
          /\ threads' = [threads EXCEPT
                ![t].pc = "process",
                ![t].tick_at = now,
                ![t].last_button_state = st.last_button_state,
                ![t].late_ticks = IF running \/ @ >= 2 THEN @ ELSE @ + 1]
    /\ drained' = drained \o [i \in 1..(Len(hw_log) - Len(drained)) |-> now]
    /\ UNCHANGED <<managerVars, profileVars, emitter, registryVars, running, gilrs, starters, n_start, n_stop, loop_started,
                   hw_log, dispatched, modeVars>>

\* line 232: process_gamepad_input on the first gamepad of the map
LoopProcess(t) ==
    /\ threads[t].pc = "process"
    /\ Len(dispatched) < MaxDispatched
    /\ IF DOMAIN gamepads = {}
       THEN /\ threads' = [threads EXCEPT ![t].pc = "sleep"]
            /\ UNCHANGED <<mode_manager, dispatched>>
       ELSE \E first \in DOMAIN gamepads, outcome \in ActionOutcomes :
            LET r == process_gamepad_input(gamepads[first],
                                           threads[t].last_button_state,
                                           mode_manager, now, outcome)
            IN /\ mode_manager' = r.mm
               /\ dispatched' = dispatched \o r.out
               /\ threads' = [threads EXCEPT
                     ![t].pc = IF r.panicked THEN "exited" ELSE "sleep",
                     ![t].last_button_state = r.last_button_state]
    /\ UNCHANGED <<managerVars, profileVars, emitter, registryVars, now, calls, running, gilrs, gamepads, starters, n_start,
                   n_stop, loop_started, hw_log, drained>>

\* line 233: sleep 16 ms, then back to the loop head
LoopSleep(t) ==
    /\ threads[t].pc = "sleep"
    /\ threads' = [threads EXCEPT ![t].pc = "check"]
    /\ UNCHANGED <<managerVars, profileVars, emitter, registryVars, running, gilrs, gamepads, starters, n_start, n_stop,
                   loop_started, hw_log, drained, dispatched, modeVars>>

LoopStep(t) ==
    \/ LoopTake(t)
    \/ LoopCheck(t)
    \/ LoopRelease(t)
    \/ LoopDrain(t)
    \/ LoopProcess(t)
    \/ LoopSleep(t)

----------------------------------------------------------------------------
(* The hardware: what gilrs reports *)

HwEvent(type, id, button) == [type |-> type, id |-> id, button |-> button, at |-> now]

\* the index of the last event of the log that satisfies P, 0 if none
LastIndex(P(_)) ==
    LET S == {i \in 1..Len(hw_log) : P(hw_log[i])}
    IN IF S = {} THEN 0 ELSE CHOOSE i \in S : \A j \in S : j <= i

HwConnected(id) ==
    LET i == LastIndex(LAMBDA e : e.id = id /\ e.type \in {"Connected", "Disconnected"})
    IN i > 0 /\ hw_log[i].type = "Connected"

\* the button is physically down: pressed since the pad was connected
HwPressed(id, button) ==
    LET i == LastIndex(LAMBDA e : e.id = id /\
                 (e.type \in {"Connected", "Disconnected"} \/ e.button = button))
    IN i > 0 /\ hw_log[i].type = "ButtonPressed"

Raise(e) ==
    /\ Len(hw_log) < MaxHwEvents
    /\ hw_log' = Append(hw_log, e)
    /\ UNCHANGED <<managerVars, profileVars, emitter, registryVars, gamepads, drained, dispatched, lifeVars, modeVars>>

HwConnect ==
    \E id \in GamepadIds :
        /\ ~HwConnected(id)
        /\ Raise(HwEvent("Connected", id, "none"))

HwDisconnect ==
    \E id \in GamepadIds :
        /\ HwConnected(id)
        /\ Raise(HwEvent("Disconnected", id, "none"))

HwPress ==
    \E id \in GamepadIds, b \in HwButtons :
        /\ HwConnected(id) /\ ~HwPressed(id, b)
        /\ Raise(HwEvent("ButtonPressed", id, b))

HwRelease ==
    \E id \in GamepadIds, b \in HwButtons :
        /\ HwConnected(id) /\ HwPressed(id, b)
        /\ Raise(HwEvent("ButtonReleased", id, b))

\* AxisChanged(axis, value): the axis name travels in the button field
HwAxisEvent(id, axis, value) ==
    [type |-> "AxisChanged", id |-> id, button |-> axis, at |-> now,
     value |-> value]

\* a stick of a connected pad moves to one of the given readings
HwAxis(axes, values) ==
    \E id \in GamepadIds, axis \in axes, value \in values :
        /\ HwConnected(id)
        /\ Raise(HwAxisEvent(id, axis, value))

\* time passes while the loop runs
TimePasses ==
    \E d \in TickSteps :
        /\ now + d <= MaxInputTime
        /\ now' = now + d
        /\ UNCHANGED <<managerVars, profileVars, emitter, registryVars, mode_manager, calls, lifeVars, inputVars>>

----------------------------------------------------------------------------
(* The life cycle of the loop: start and stop callers against the thread *)

NextLoop ==
    \/ \E c \in StartCallers : StartCheck(c)
    \/ \E c \in StartCallers : StartSet(c)
    \/ \E c \in StartCallers : StartSpawn(c)
    \/ Stop
    \/ \E t \in DOMAIN threads : LoopTake(t)
    \/ \E t \in DOMAIN threads : LoopCheck(t)
    \/ \E t \in DOMAIN threads : LoopRelease(t)
    \/ \E t \in DOMAIN threads : LoopDrain(t)
    \/ \E t \in DOMAIN threads : LoopProcess(t)
    \/ \E t \in DOMAIN threads : LoopSleep(t)
    \/ HwConnect
    \/ HwDisconnect

SpecLoop == Init /\ [][NextLoop]_vars

\* start, stop and the loop thread, with a gamepad that gets plugged in
NextStop ==
    \/ \E c \in StartCallers : StartCheck(c)
    \/ \E c \in StartCallers : StartSet(c)
    \/ \E c \in StartCallers : StartSpawn(c)
    \/ Stop
    \/ \E t \in DOMAIN threads : LoopStep(t)
    \/ HwConnect

\* the operating system schedules every live thread
FairSpecLoop ==
    /\ Init /\ [][NextStop]_vars
    /\ \A t \in 1..MaxStarts : WF_vars(t \in DOMAIN threads /\ LoopStep(t))

----------------------------------------------------------------------------
(* The running loop fed with button events *)

\* the state once the application's setup has run (lib.rs: new, then start)
\* and the loop thread has taken the event source
InitInput ==
    /\ now = StartTime
    /\ mode_manager = GamepadModeManager_new
    /\ calls = <<>>
    /\ running = TRUE
    /\ gilrs = "None"
    /\ gamepads = EmptyMap
    /\ threads = <<[Thread_new EXCEPT !.pc = "check", !.gilrs_instance = TRUE]>>
    /\ starters = [c \in StartCallers |->
                     IF c = 1 THEN [Starter_idle EXCEPT !.result = "Ok", !.call = 1]
                     ELSE Starter_idle]
    /\ n_start = 1
    /\ n_stop = 0
    /\ loop_started = TRUE
    /\ hw_log = <<>>
    /\ drained = <<>>
    /\ dispatched = <<>>
    /\ profiles = default_profiles
    /\ active_profile = "Default"
    /\ db = Db_new
    /\ profile_call = ProfileCall_idle
    /\ emitter = Emitter_idle
    /\ key_bindings = KeyBindingRegistry_new
    /\ reg_log = <<>>
    /\ reg_query = Query_idle
    /\ locks = Locks_new
    /\ gamepads_order = <<>>
    /\ gamepads_call = GamepadsCall_idle

\* one whole iteration of the loop (lines 149-234) while the flag is set: the
\* drain, then process_gamepad_input, then the sleep
LoopTick(t) ==
    /\ threads[t].pc = "check"
    /\ running
    /\ Len(dispatched) < MaxDispatched
    /\ LET st == drain_events([gamepads |-> gamepads,
                               last_button_state |-> threads[t].last_button_state],
                              SubSeq(hw_log, Len(drained) + 1, Len(hw_log)))
       IN /\ gamepads' = st.gamepads
          /\ drained' = drained \o [i \in 1..(Len(hw_log) - Len(drained)) |-> now]
          /\ IF DOMAIN st.gamepads = {}
             THEN /\ threads' = [threads EXCEPT
                         ![t].tick_at = now,
                         ![t].last_button_state = st.last_button_state]
                  /\ UNCHANGED <<mode_manager, dispatched>>
             ELSE \E first \in DOMAIN st.gamepads, outcome \in ActionOutcomes :
                  LET r == process_gamepad_input(st.gamepads[first],
                                                 st.last_button_state,
                                                 mode_manager, now, outcome)
                  IN /\ mode_manager' = r.mm
                     /\ dispatched' = dispatched \o r.out
                     /\ threads' = [threads EXCEPT
                           ![t].pc = IF r.panicked THEN "exited" ELSE "check",
                           ![t].tick_at = now,
                           ![t].last_button_state = r.last_button_state]
    /\ UNCHANGED <<managerVars, profileVars, emitter, registryVars, now, calls, running, gilrs, starters, n_start, n_stop,
                   loop_started, hw_log>>

NextInput ==
    \/ \E t \in DOMAIN threads : LoopTick(t)
    \/ HwConnect
    \/ HwPress
    \/ HwRelease
    \/ TimePasses

SpecInput == InitInput /\ [][NextInput]_vars

----------------------------------------------------------------------------
(* The loop stopped and started again while buttons are down *)

\* stop() and then start(), each run to completion, with the loop thread in
\* between: the running thread t reads the cleared flag at its next check,
\* puts the event source back and exits; start() sets the flag and spawns a
\* thread, which takes the event source and begins with an empty
\* last_button_state.  The gamepads map is not touched.
Restart(t) ==
    /\ running
    /\ threads[t].pc = "check" /\ threads[t].gilrs_instance
    /\ n_start < MaxStarts /\ n_stop < MaxStops
    /\ n_stop' = n_stop + 1
    /\ n_start' = n_start + 1
    /\ starters' = [starters EXCEPT ![1] =
            [pc |-> "idle", is_running |-> FALSE, result |-> "Ok",
             call |-> n_start + 1]]
    /\ threads' = Append([threads EXCEPT ![t].pc = "exited",
                                         ![t].gilrs_instance = FALSE],
                         [Thread_new EXCEPT !.pc = "check",
                                            !.gilrs_instance = TRUE])
    /\ UNCHANGED <<managerVars, profileVars, emitter, registryVars, running, gilrs, loop_started, gamepads, hw_log, drained,
                   dispatched, modeVars>>

RestartAxes == {"LeftStickX"}

RestartStick == {50}

NextRestart ==
    \/ \E t \in DOMAIN threads : LoopTick(t)
    \/ \E t \in DOMAIN threads : Restart(t)
    \/ HwConnect
    \/ HwPress
    \/ HwAxis(RestartAxes, RestartStick)

SpecRestart == InitInput /\ [][NextRestart]_vars

----------------------------------------------------------------------------
(* The running loop with several gamepads, and get_gamepads *)

\* the gilrs buttons and axes reported ("C" and "LeftZ" have no index in
\* map_button_to_gamepad / map_axis_to_gamepad), and the axis readings
PadButtons == {"South", "C"}
PadAxes == {"LeftStickX", "LeftZ"}
PadValues == {-150, 150}
\* the gamepad whose buttons, and the one whose sticks, are touched
ButtonPadIds == {1}
AxisPadIds == {0}

\* HashMap::insert: a key already in the map keeps its place; a new key can
\* come at any place of the iteration order (its place depends on the hash)
insert_orders(order, id) ==
    IF \E i \in DOMAIN order : order[i] = id THEN {order}
    ELSE {SubSeq(order, 1, i) \o <<id>> \o SubSeq(order, i + 1, Len(order)) :
             i \in 0..Len(order)}

\* HashMap::remove: the other keys keep their order
remove_order(order, id) == SelectSeq(order, LAMBDA k : k # id)

\* the iteration orders the gamepads map can have after the drain of events
RECURSIVE drain_orders(_, _)
drain_orders(order, events) ==
    IF events = <<>> THEN {order}
    ELSE LET e == Head(events) IN
         CASE e.type = "Connected" ->
                UNION {drain_orders(o, Tail(events)) : o \in insert_orders(order, e.id)}
           [] e.type = "Disconnected" ->
                drain_orders(remove_order(order, e.id), Tail(events))
           [] OTHER -> drain_orders(order, Tail(events))

\* gamepads.values().cloned().collect(), in the order of iteration
values(map, order) == [i \in DOMAIN order |-> map[order[i]]]

\* the stable sort of list.sort_by_key(|g| g.index): g goes after the entries
\* whose index is not greater
index_insert(sorted, g) ==
    LET before == {i \in DOMAIN sorted : sorted[i].index <= g.index}
        n == Cardinality(before)
    IN SubSeq(sorted, 1, n) \o <<g>> \o SubSeq(sorted, n + 1, Len(sorted))

RECURSIVE sort_by_index(_, _)
sort_by_index(sorted, list) ==
    IF list = <<>> THEN sorted
    ELSE sort_by_index(index_insert(sorted, Head(list)), Tail(list))

\* a mutant of get_gamepads: the list is returned as collected
get_gamepads_unsorted(map, order) == values(map, order)

\* GamepadManager::get_gamepads
get_gamepads(map, order) == sort_by_index(<<>>, values(map, order))

\* the state of InitInput; the thread also records the gamepad its latest
\* tick used (primary: <<>> or <<id>>), which the code does not keep
InitPads ==
    /\ now = StartTime
    /\ mode_manager = GamepadModeManager_new
    /\ calls = <<>>
    /\ running = TRUE
    /\ gilrs = "None"
    /\ gamepads = EmptyMap
    /\ threads = <<[pc |-> "check", gilrs_instance |-> TRUE,
                    last_button_state |-> button_state_new,
                    late_ticks |-> 0, tick_at |-> 0, primary |-> <<>>]>>
    /\ starters = [c \in StartCallers |->
                     IF c = 1 THEN [Starter_idle EXCEPT !.result = "Ok", !.call = 1]
                     ELSE Starter_idle]
    /\ n_start = 1
    /\ n_stop = 0
    /\ loop_started = TRUE
    /\ hw_log = <<>>
    /\ drained = <<>>
    /\ dispatched = <<>>
    /\ profiles = default_profiles
    /\ active_profile = "Default"
    /\ db = Db_new
    /\ profile_call = ProfileCall_idle
    /\ emitter = Emitter_idle
    /\ key_bindings = KeyBindingRegistry_new
    /\ reg_log = <<>>
    /\ reg_query = Query_idle
    /\ locks = Locks_new
    /\ gamepads_order = <<>>
    /\ gamepads_call = GamepadsCall_idle

\* the events waiting in gilrs
Pending == SubSeq(hw_log, Len(drained) + 1, Len(hw_log))

\* one whole iteration of the loop (lines 149-234) while the flag is set: the
\* drain, then process_gamepad_input on g.values().next(), then the sleep
PadTick(t) ==
    /\ threads[t].pc = "check"
    /\ running
    /\ Len(dispatched) < MaxDispatched
    /\ LET st == drain_events([gamepads |-> gamepads,
                               last_button_state |-> threads[t].last_button_state],
                              Pending)
       IN \E order \in drain_orders(gamepads_order, Pending) :
          /\ gamepads' = st.gamepads
          /\ gamepads_order' = order
          /\ drained' = drained \o [i \in 1..Len(Pending) |-> now]
          /\ IF order = <<>>
             THEN /\ threads' = [threads EXCEPT
                         ![t].tick_at = now,
                         ![t].last_button_state = st.last_button_state,
                         ![t].primary = <<>>]
                  /\ UNCHANGED <<mode_manager, dispatched>>
             ELSE \E outcome \in ActionOutcomes :
                  LET r == process_gamepad_input(st.gamepads[order[1]],
                                                 st.last_button_state,
                                                 mode_manager, now, outcome)
                  IN /\ mode_manager' = r.mm
                     /\ dispatched' = dispatched \o r.out
                     /\ threads' = [threads EXCEPT
                           ![t].pc = IF r.panicked THEN "exited" ELSE "check",
                           ![t].tick_at = now,
                           ![t].last_button_state = r.last_button_state,
                           ![t].primary = <<order[1]>>]
    /\ UNCHANGED <<locks, gamepads_call, profileVars, emitter, registryVars, now,
                   calls, running, gilrs, starters, n_start, n_stop,
                   loop_started, hw_log>>

PadConnect ==
    \E id \in PadIds :
        /\ ~HwConnected(id)
        /\ Raise(HwEvent("Connected", id, "none"))

PadDisconnect ==
    \E id \in PadIds :
        /\ HwConnected(id)
        /\ Raise(HwEvent("Disconnected", id, "none"))

\* a button or an axis event, of a connected gamepad or of any other id
PadButton ==
    \E id \in ButtonPadIds, b \in PadButtons :
        Raise(HwEvent("ButtonPressed", id, b))

PadAxis ==
    \E id \in AxisPadIds, axis \in PadAxes, value \in PadValues :
        Raise(HwAxisEvent(id, axis, value))

\* the get_gamepads command
CallGetGamepads ==
    /\ gamepads_call' = [op |-> "get_gamepads",
                         ret |-> get_gamepads(gamepads, gamepads_order)]
    /\ UNCHANGED <<locks, gamepads_order, profileVars, emitter, registryVars,
                   modeVars, lifeVars, inputVars>>

NextPads ==
    \/ \E t \in DOMAIN threads : PadTick(t)
    \/ PadConnect
    \/ PadDisconnect
    \/ PadButton
    \/ PadAxis
    \/ CallGetGamepads

SpecPads == InitPads /\ [][NextPads]_vars

----------------------------------------------------------------------------
(* The sticks under the running loop, with profiles saved and activated *)

\* the profiles a caller saves
SavedProfiles ==
    {GamepadProfile("Default", 100, 0, 100),
     GamepadProfile("Fast", 200, 10, 100)}

\* the names a caller passes
ProfileNames == {p.name : p \in SavedProfiles}

\* GamepadManager::save_profile; db_ok is the outcome of the store's write.
\* The cache is locked with lock().unwrap(): a poisoned mutex makes the call
\* panic before anything is written.  A caller that finds the mutex held for
\* ever never gets past the acquisition: the call is not made.
SaveProfile ==
    \E profile \in SavedProfiles, db_ok \in BOOLEAN :
        /\ "profiles" \notin locks.stuck
        /\ IF lock_unwrap(locks, "profiles") = "Panic"
           THEN /\ profile_call' = [op |-> "save_profile", arg |-> profile,
                                    db_ok |-> db_ok, ret |-> "Panic"]
                /\ UNCHANGED <<profiles, db>>
           ELSE LET r == save_profile(profiles, db, profile, db_ok)
                IN /\ profiles' = r.profiles
                   /\ db' = r.db
                   /\ profile_call' = [op |-> "save_profile", arg |-> profile,
                                       db_ok |-> db_ok, ret |-> r.ret]
        /\ UNCHANGED <<managerVars, active_profile, emitter, registryVars, modeVars,
                       lifeVars, inputVars>>

\* GamepadManager::set_active_profile
SetActiveProfile ==
    \E profile_name \in ProfileNames :
        LET ret == set_active_profile_ret(profiles, profile_name)
        IN /\ "profiles" \notin locks.stuck
           /\ active_profile' = IF ret = "Ok" THEN profile_name ELSE active_profile
           /\ profile_call' = [op |-> "set_active_profile",
                               arg |-> [name |-> profile_name],
                               db_ok |-> TRUE, ret |-> ret]
           /\ UNCHANGED <<managerVars, profiles, db, emitter, registryVars, modeVars,
                          lifeVars, inputVars>>

\* GamepadManager::delete_profile; db_ok is the outcome of the store's delete.
\* "Default" is refused before any mutex is locked.
DeleteProfile ==
    \E profile_name \in ProfileNames, db_ok \in BOOLEAN :
        LET r == delete_profile(profiles, db, profile_name, db_ok)
        IN /\ profile_name # "Default" => "profiles" \notin locks.stuck
           /\ profiles' = r.profiles
           /\ db' = r.db
           /\ profile_call' = [op |-> "delete_profile",
                               arg |-> [name |-> profile_name],
                               db_ok |-> db_ok, ret |-> r.ret]
           /\ UNCHANGED <<managerVars, active_profile, emitter, registryVars, modeVars,
                          lifeVars, inputVars>>

\* GamepadManager::set_database: the store is set and the profiles are loaded;
\* db_ok is the outcome of the store's query.  load_profiles_from_db locks the
\* cache while it holds the db mutex: with the cache mutex held for ever the
\* call stops there and the db mutex is never released.
SetDatabase ==
    \E db_ok \in BOOLEAN :
        /\ ~db.available
        /\ "db" \notin locks.stuck
        /\ db' = [db EXCEPT !.available = TRUE]
        /\ IF db_ok /\ "profiles" \in locks.stuck
           THEN /\ locks' = [locks EXCEPT !.stuck = @ \cup {"db"}]
                /\ profile_call' = [op |-> "set_database", arg |-> [name |-> "none"],
                                    db_ok |-> db_ok, ret |-> "Blocked"]
                /\ UNCHANGED profiles
           ELSE /\ profiles' = load_profiles_from_db(profiles, db', db_ok)
                /\ profile_call' = [op |-> "set_database", arg |-> [name |-> "none"],
                                    db_ok |-> db_ok, ret |-> "Ok"]
                /\ UNCHANGED locks
        /\ UNCHANGED <<gamepads_order, gamepads_call, active_profile, emitter,
                       registryVars, modeVars, lifeVars, inputVars>>

\* GamepadManager::get_profiles.  The guard taken at line 370 is dropped only
\* in the branch of an empty cache (381); with a cache that is not empty the
\* thread still holds it when it locks the same mutex again at line 388.
\* std leaves that case unspecified but for the call not returning: the thread
\* deadlocks, keeping the mutex for ever, or panics, which poisons it.
GetProfiles ==
    \E db_ok \in BOOLEAN, outcome \in RelockOutcomes :
        /\ "profiles" \notin locks.stuck
        /\ IF DOMAIN profiles = {}
           THEN /\ profiles' = get_profiles(profiles, db, db_ok)
                /\ profile_call' = [op |-> "get_profiles", arg |-> [name |-> "none"],
                                    db_ok |-> db_ok, ret |-> "Ok"]
                /\ UNCHANGED locks
           ELSE /\ locks' = IF outcome = "Deadlock"
                            THEN [locks EXCEPT !.stuck = @ \cup {"profiles"}]
                            ELSE [locks EXCEPT !.poisoned = @ \cup {"profiles"}]
                /\ profile_call' = [op |-> "get_profiles", arg |-> [name |-> "none"],
                                    db_ok |-> db_ok, ret |-> outcome]
                /\ UNCHANGED profiles
        /\ UNCHANGED <<gamepads_order, gamepads_call, active_profile, db, emitter,
                       registryVars, modeVars, lifeVars, inputVars>>

\* the stick readings raised, in hundredths
StickValues == {-50, 6, 10, 50}

NextStick ==
    \/ \E t \in DOMAIN threads : LoopTick(t)
    \/ HwConnect
    \/ HwAxis(map_axis_to_gamepad, StickValues)
    \/ SaveProfile
    \/ SetActiveProfile

SpecStick == InitInput /\ [][NextStick]_vars

----------------------------------------------------------------------------
(* The profile API driven by its callers *)

\* the rows the table may hold from an earlier run
StoredRows ==
    {EmptyMap,
     map_insert(EmptyMap, "Fast", GamepadProfile("Fast", 200, 10, 100))}

InitProfile ==
    /\ now = StartTime
    /\ mode_manager = GamepadModeManager_new
    /\ calls = <<>>
    /\ running = FALSE
    /\ gilrs = "Some"
    /\ gamepads = EmptyMap
    /\ threads = <<>>
    /\ starters = [c \in StartCallers |-> Starter_idle]
    /\ n_start = 0
    /\ n_stop = 0
    /\ loop_started = FALSE
    /\ hw_log = <<>>
    /\ drained = <<>>
    /\ dispatched = <<>>
    /\ profiles = default_profiles
    /\ active_profile = "Default"
    /\ db \in {[Db_new EXCEPT !.rows = rows] : rows \in StoredRows}
    /\ profile_call = ProfileCall_idle
    /\ emitter = Emitter_idle
    /\ key_bindings = KeyBindingRegistry_new
    /\ reg_log = <<>>
    /\ reg_query = Query_idle
    /\ locks = Locks_new
    /\ gamepads_order = <<>>
    /\ gamepads_call = GamepadsCall_idle

NextProfile ==
    \/ SaveProfile
    \/ SetActiveProfile
    \/ DeleteProfile
    \/ SetDatabase
    \/ GetProfiles

SpecProfile == InitProfile /\ [][NextProfile]_vars

----------------------------------------------------------------------------
(* The profile API with threads that panic while they hold a mutex *)

\* the mutexes the profile API locks
ProfileLocks == {"profiles", "active_profile", "db"}

\* some thread panics while it holds the mutex: the guard is dropped during
\* the unwinding and the mutex is marked poisoned
PanicHolding ==
    \E name \in ProfileLocks :
        /\ name \notin locks.poisoned
        /\ name \notin locks.stuck
        /\ locks' = [locks EXCEPT !.poisoned = @ \cup {name}]
        /\ UNCHANGED <<gamepads_order, gamepads_call, profileVars, emitter,
                       registryVars, modeVars, lifeVars, inputVars>>

NextPoison ==
    \/ SaveProfile
    \/ SetActiveProfile
    \/ DeleteProfile
    \/ SetDatabase
    \/ GetProfiles
    \/ PanicHolding

SpecPoison == InitProfile /\ [][NextPoison]_vars

----------------------------------------------------------------------------
(* The emitters called directly *)

\* the arguments the emitters are called with
EmitterArgs == {-240, -1, 0, 1, 120, 240}

InitEmitter ==
    /\ now = StartTime
    /\ mode_manager = GamepadModeManager_new
    /\ calls = <<>>
    /\ running = FALSE
    /\ gilrs = "Some"
    /\ gamepads = EmptyMap
    /\ threads = <<>>
    /\ starters = [c \in StartCallers |-> Starter_idle]
    /\ n_start = 0
    /\ n_stop = 0
    /\ loop_started = FALSE
    /\ hw_log = <<>>
    /\ drained = <<>>
    /\ dispatched = <<>>
    /\ profiles = default_profiles
    /\ active_profile = "Default"
    /\ db = Db_new
    /\ profile_call = ProfileCall_idle
    /\ emitter \in [pc : {"call"}, fn : EmitterFns, platform : Platforms,
                    os_ok : BOOLEAN, a : EmitterArgs, b : EmitterArgs]
    /\ key_bindings = KeyBindingRegistry_new
    /\ reg_log = <<>>
    /\ reg_query = Query_idle
    /\ locks = Locks_new
    /\ gamepads_order = <<>>
    /\ gamepads_call = GamepadsCall_idle

\* the emitter runs to its return
EmitterCall ==
    /\ emitter.pc = "call"
    /\ emitter.fn \in EmitterFns
    /\ LET r == emitter_call(emitter.fn, emitter.platform, emitter.os_ok,
                             emitter.a, emitter.b)
       IN emitter' = [pc |-> "returned", fn |-> emitter.fn,
                      platform |-> emitter.platform, os_ok |-> emitter.os_ok,
                      a |-> emitter.a, b |-> emitter.b,
                      posted |-> r.posted, ret |-> r.ret]
    /\ UNCHANGED <<managerVars, profileVars, registryVars, modeVars, lifeVars, inputVars>>

NextEmitter == EmitterCall

SpecEmitter == InitEmitter /\ [][NextEmitter]_vars

----------------------------------------------------------------------------
(* The executor called with an action *)

\* the actions passed to execute_action
ExecActions ==
    {Volume("VolumeUp", 10), Volume("VolumeDown", 10), Volume("VolumeUp", 150),
     Action("MediaPlayPause"), Action("MediaNext"), Action("MediaPrevious"),
     Action("MediaStop"), KeyPress("Escape"), SwitchMode("Motion"),
     Action("NoOp"), Action("WindowCycle"),
     [kind |-> "MouseMove", name |-> "", v |-> 0, h |-> 0],
     [kind |-> "MouseMove", name |-> "", v |-> 5, h |-> -5],
     MouseScroll(0, 0), MouseScroll(1, 0)}

\* the levels of the OS volume at the call
VolumeLevels == {0, 50, 95}

InitExecutor ==
    /\ now = StartTime
    /\ mode_manager = GamepadModeManager_new
    /\ calls = <<>>
    /\ running = FALSE
    /\ gilrs = "Some"
    /\ gamepads = EmptyMap
    /\ threads = <<>>
    /\ starters = [c \in StartCallers |-> Starter_idle]
    /\ n_start = 0
    /\ n_stop = 0
    /\ loop_started = FALSE
    /\ hw_log = <<>>
    /\ drained = <<>>
    /\ dispatched = <<>>
    /\ profiles = default_profiles
    /\ active_profile = "Default"
    /\ db = Db_new
    /\ profile_call = ProfileCall_idle
    /\ emitter \in [pc : {"call"}, fn : {"execute_action"}, platform : Platforms,
                    os_ok : BOOLEAN, action : ExecActions, volume : VolumeLevels]
    /\ key_bindings = KeyBindingRegistry_new
    /\ reg_log = <<>>
    /\ reg_query = Query_idle
    /\ locks = Locks_new
    /\ gamepads_order = <<>>
    /\ gamepads_call = GamepadsCall_idle

\* execute_action runs to its return
ExecutorCall ==
    /\ emitter.pc = "call"
    /\ emitter.fn = "execute_action"
    /\ LET r == execute_action(emitter.platform, emitter.os_ok, emitter.volume,
                               emitter.action)
       IN emitter' = [pc |-> "returned", fn |-> emitter.fn,
                      platform |-> emitter.platform, os_ok |-> emitter.os_ok,
                      action |-> emitter.action, volume_before |-> emitter.volume,
                      volume |-> r.volume, emitted |-> r.emitted,
                      posted |-> r.posted, ret |-> r.ret]
    /\ UNCHANGED <<managerVars, profileVars, registryVars, modeVars, lifeVars, inputVars>>

NextExecutor == ExecutorCall

SpecExecutor == InitExecutor /\ [][NextExecutor]_vars

----------------------------------------------------------------------------
(* Claims about the mode manager *)

\* the step is the call op (the call record grows by one entry of that op)
IsCall(op) ==
    /\ Len(calls') = Len(calls) + 1
    /\ calls'[Len(calls')].op = op

LastCall == calls[Len(calls)]

C2_AcceptedSwitchState ==
    [][IsCall("switch_mode") /\ calls'[Len(calls')].ret =>
        /\ mode_manager'.state.previous = mode_manager.state.current
        /\ mode_manager'.state.current = calls'[Len(calls')].arg
        /\ mode_manager'.state.activated_at = now
        /\ mode_manager'.state.transitioning = TRUE]_vars

\* a second accepted switch: the old current mode was not Normal
C2_Witness ==
    /\ Len(calls) >= 2
    /\ LastCall.op = "switch_mode" /\ LastCall.ret
    /\ mode_manager.state.previous # "Normal"
    /\ mode_manager.state.current = LastCall.arg
    /\ mode_manager.state.activated_at = now

\* C3: after reset_to_normal() returns the current mode is Normal, whatever
\* the state and the time of the call.
C3_ResetIsHard ==
    (Len(calls) > 0 /\ LastCall.op = "reset_to_normal")
        => mode_manager.state.current = "Normal"

\* C4: from a fresh manager, switch_mode(A), switch_mode(B), revert_mode()
\* with A, B distinct non-Normal modes, at any call times, ends with
\* revert_mode returning true and the current mode equal to A.
C4_RevertReturnsToFirst ==
    (/\ Len(calls) = 3
     /\ calls[1].op = "switch_mode" /\ calls[1].arg # "Normal"
     /\ calls[2].op = "switch_mode" /\ calls[2].arg # "Normal"
     /\ calls[1].arg # calls[2].arg
     /\ calls[3].op = "revert_mode")
        => (calls[3].ret /\ mode_manager.state.current = calls[1].arg)

\* C5: the transitioning flag set by an accepted switch is cleared by the next
\* accepted switch_mode and by reset_to_normal.
C5_TransitioningCleared ==
    [][(/\ mode_manager.state.transitioning
        /\ \/ IsCall("reset_to_normal")
           \/ IsCall("switch_mode") /\ calls'[Len(calls')].ret)
        => ~mode_manager'.state.transitioning]_vars

\* the calls that were accepted switches
AcceptedCalls ==
    {i \in DOMAIN calls : calls[i].op \in {"switch_mode", "revert_mode"} /\ calls[i].ret}

IsRejectedOrRead ==
    /\ Len(calls') = Len(calls) + 1
    /\ LET c == calls'[Len(calls')]
       IN \/ c.op \in DOMAIN ModeReads
          \/ c.op \in {"switch_mode", "revert_mode"} /\ ~c.ret

\* C40: a switch_mode or revert_mode that returns false, and the reads
\* current_mode / previous_mode / is_transitioning / get_state, leave current,
\* previous, activated_at, transitioning and last_switch_time unchanged; a
\* debounced call does not restart the 50 ms window.
C40_RejectedCallsChangeNothing ==
    [][IsRejectedOrRead =>
        /\ mode_manager'.state.current = mode_manager.state.current
        /\ mode_manager'.state.previous = mode_manager.state.previous
        /\ mode_manager'.state.activated_at = mode_manager.state.activated_at
        /\ mode_manager'.state.transitioning = mode_manager.state.transitioning
        /\ mode_manager'.last_switch_time = mode_manager.last_switch_time]_vars

\* an accepted switch, a debounced switch 49 ms later, and a switch accepted
\* 98 ms after the first: the window was not restarted by the rejected call
C40_Witness ==
    /\ Len(calls) = 3
    /\ calls[1].op = "switch_mode" /\ calls[1].ret
    /\ calls[2].op = "switch_mode" /\ ~calls[2].ret /\ calls[2].arg # calls[1].arg
    /\ calls[3].op = "switch_mode" /\ calls[3].ret
    /\ mode_manager.last_switch_time < StartTime + 2 * min_switch_interval

----------------------------------------------------------------------------
(* Claims about start, stop and the loop thread *)

AllExited == \A t \in DOMAIN threads : threads[t].pc = "exited"

\* C6: start() fails (already running) whenever the input loop has been
\* started and not stopped since; the failing call spawns no thread and leaves
\* the running flag, the gamepads map and the hardware source slot unchanged.
\* start() succeeds only when the running flag was false.
C6_StartFailsWhenStarted ==
    [][\A c \in StartCallers :
        /\ (n_start' = n_start + 1 /\ starters'[c].call = n_start') =>
              /\ loop_started =>
                    /\ starters'[c].result = "Err"
                    /\ starters'[c].pc = "idle"
                    /\ UNCHANGED <<running, gamepads, gilrs, threads>>
              /\ starters'[c].pc = "set" => ~running
        /\ (starters[c].pc = "spawn" /\ starters'[c].result = "Ok") =>
              ~starters[c].is_running]_vars

\* a start() was rejected while the loop thread of an earlier start() holds
\* the event source
C6_Witness ==
    /\ running /\ loop_started
    /\ Len(threads) = 1 /\ threads[1].gilrs_instance
    /\ \E c \in StartCallers : starters[c].result = "Err"

\* C7: after stop() on a running manager, with no start() after it, the loop
\* thread eventually exits, having begun at most one more tick; when it exits
\* the hardware event source is back in the manager's slot; a second stop()
\* changes nothing.
C7_StopEndsLoop ==
    /\ [](\A t \in DOMAIN threads : threads[t].late_ticks <= 1)
    /\ [][\A t \in DOMAIN threads :
            (threads[t].gilrs_instance /\ threads[t].pc # "exited"
                                       /\ threads'[t].pc = "exited")
                => gilrs' = "Some"]_vars
    /\ [][(n_stop' = n_stop + 1 /\ ~running)
            => UNCHANGED <<running, gilrs, gamepads, threads, starters>>]_vars
    /\ (~running ~> (running \/ (AllExited /\ gilrs = "Some")))

\* the loop thread has exited after one tick begun after stop(), the event
\* source is back in the slot and stop() has been called twice
C7_Witness ==
    /\ ~running /\ n_stop >= 2
    /\ AllExited /\ gilrs = "Some"
    /\ \E t \in DOMAIN threads : threads[t].late_ticks = 1

\* no start() is under way, no thread is about to take the event source or
\* about to put it back
Quiesced ==
    /\ \A c \in StartCallers : starters[c].pc = "idle"
    /\ \A t \in DOMAIN threads : threads[t].pc \notin {"take", "release"}

\* C35: under every interleaving of stop(), start(), the loop thread's steps
\* and a new thread's take of the event source, whenever the running flag is
\* set and the threads have quiesced a loop thread holding the event source
\* is alive
C35_RunningHasLoop ==
    (running /\ Quiesced) =>
        \E t \in DOMAIN threads :
            threads[t].gilrs_instance /\ threads[t].pc # "exited"

\* the holders of the hardware event source
SourceHolders ==
    {t \in DOMAIN threads : threads[t].gilrs_instance}
        \cup (IF gilrs = "Some" THEN {0} ELSE {})

\* C36: the hardware event source has exactly one holder, the manager's slot
\* or one loop thread, in every state reached by start and stop calls and the
\* threads' steps; at most one thread polls it
C36_OneSourceHolder == Cardinality(SourceHolders) = 1

\* a second thread found the slot empty and exited while the first thread
\* holds the event source
C36_Witness ==
    /\ Len(threads) = 2
    /\ gilrs = "None"
    /\ \E t, u \in DOMAIN threads :
          /\ threads[t].gilrs_instance /\ threads[t].pc # "exited"
          /\ threads[u].pc = "exited" /\ ~threads[u].gilrs_instance

----------------------------------------------------------------------------
(* Leaving Motion and Hotkey: the loop once one of the two modes is entered *)

\* the buttons of the chords RB+Y and LB+Y
ExitButtons == {"RB", "LB", "North"}

ExitModes == {"Motion", "Hotkey"}

ExitEvent(type, button) == [type |-> type, id |-> 0, button |-> button, at |-> StartTime]

\* the manager's state once the mode has been entered and the buttons are up
\* again: gamepad 0 connects, RB (for Motion) or LB (for Hotkey) and North
\* go down, the loop is stopped and started, the new thread ticks (the rising
\* edge of North switches the mode), both buttons are released, the thread
\* ticks again
entered(mode) ==
    LET chord == IF mode = "Motion" THEN "RB" ELSE "LB"
        st1 == drain_events([gamepads |-> EmptyMap,
                             last_button_state |-> button_state_new],
                            <<ExitEvent("Connected", "none"),
                              ExitEvent("ButtonPressed", chord),
                              ExitEvent("ButtonPressed", "North")>>)
        r1 == process_gamepad_input(st1.gamepads[0], button_state_new,
                                    GamepadModeManager_new, StartTime, "Ok")
        st2 == drain_events([gamepads |-> st1.gamepads,
                             last_button_state |-> r1.last_button_state],
                            <<ExitEvent("ButtonReleased", chord),
                              ExitEvent("ButtonReleased", "North")>>)
        r2 == process_gamepad_input(st2.gamepads[0], st2.last_button_state,
                                    r1.mm, StartTime, "Ok")
    IN [gamepads |-> st2.gamepads, last_button_state |-> r2.last_button_state,
        mm |-> r2.mm]

\* the loop runs in Motion or in Hotkey, entered two debounce windows ago, with
\* gamepad 0 connected and no button down; the logs of the model start empty
InitExit ==
    /\ now = StartTime + 2 * min_switch_interval
    /\ \E mode \in ExitModes :
          /\ mode_manager = entered(mode).mm
          /\ gamepads = entered(mode).gamepads
          /\ threads = <<[Thread_new EXCEPT
                            !.pc = "check", !.gilrs_instance = TRUE,
                            !.last_button_state = entered(mode).last_button_state]>>
    /\ calls = <<>>
    /\ running = TRUE
    /\ gilrs = "None"
    /\ starters = [c \in StartCallers |->
                     IF c = 1 THEN [Starter_idle EXCEPT !.result = "Ok", !.call = 1]
                     ELSE Starter_idle]
    /\ n_start = 1
    /\ n_stop = 0
    /\ loop_started = TRUE
    /\ hw_log = <<>>
    /\ drained = <<>>
    /\ dispatched = <<>>
    /\ profiles = default_profiles
    /\ active_profile = "Default"
    /\ db = Db_new
    /\ profile_call = ProfileCall_idle
    /\ emitter = Emitter_idle
    /\ key_bindings = KeyBindingRegistry_new
    /\ reg_log = <<>>
    /\ reg_query = Query_idle
    /\ locks = Locks_new
    /\ gamepads_order = <<0>>
    /\ gamepads_call = GamepadsCall_idle

\* the button is physically down
ExitDown(button) ==
    LET i == LastIndex(LAMBDA e : e.button = button)
    IN i > 0 /\ hw_log[i].type = "ButtonPressed"

ExitPress ==
    \E b \in ExitButtons :
        /\ ~ExitDown(b)
        /\ Raise(ExitEvent("ButtonPressed", b))

ExitRelease ==
    \E b \in ExitButtons :
        /\ ExitDown(b)
        /\ Raise(ExitEvent("ButtonReleased", b))

NextExit ==
    \/ \E t \in DOMAIN threads : LoopTick(t)
    \/ \E t \in DOMAIN threads : Restart(t)
    \/ ExitPress
    \/ ExitRelease

SpecExit == InitExit /\ [][NextExit]_vars

\* what a tick reads and writes: the snapshots, the thread's
\* last_button_state, the mode manager and the clock
ExitState(t) ==
    [gamepads |-> gamepads, last_button_state |-> threads[t].last_button_state,
     mm |-> mode_manager, at |-> now]

\* one tick (drain and process_gamepad_input) that finds the events in the
\* queue, at clock reading at
exit_tick(s, events, at) ==
    LET st == drain_events([gamepads |-> s.gamepads,
                            last_button_state |-> s.last_button_state], events)
        r == process_gamepad_input(st.gamepads[0], st.last_button_state,
                                   s.mm, at, "Ok")
    IN [gamepads |-> st.gamepads, last_button_state |-> r.last_button_state,
        mm |-> r.mm, at |-> at]

\* what can happen between two ticks: nothing, or one button event
ExitInputs ==
    {<<>>} \cup {<<ExitEvent(type, b)>> :
                    type \in {"ButtonPressed", "ButtonReleased"}, b \in ExitButtons}

\* some sequence of at most n button events, each followed by a tick a full
\* debounce window after the one before, takes a state of S to Normal
RECURSIVE exit_reachable(_, _)
exit_reachable(S, n) ==
    \/ \E s \in S : current_mode(s.mm) = "Normal"
    \/ /\ n > 0
       /\ exit_reachable({exit_tick(s, events, s.at + min_switch_interval) :
                             s \in S, events \in ExitInputs}, n - 1)

----------------------------------------------------------------------------
(* Claims about the gamepads map *)

\* the index of the last Connected / Disconnected event of the id that the
\* loop has drained, 0 if there is none
LastPlug(id) ==
    LET S == {i \in 1..Len(drained) :
                hw_log[i].id = id /\ hw_log[i].type \in {"Connected", "Disconnected"}}
    IN IF S = {} THEN 0 ELSE CHOOSE i \in S : \A j \in S : j <= i

\* the ids whose last drained Connected / Disconnected event is Connected
ConnectedIds ==
    {id \in PadIds : LastPlug(id) > 0 /\ hw_log[LastPlug(id)].type = "Connected"}

\* the events drained by the step
NewlyDrained == {i \in (Len(drained) + 1)..Len(drained') : TRUE}

\* C31: once the loop has drained the events, the gamepads map holds exactly
\* the ids whose last Connected / Disconnected event is Connected, each entry
\* being a fresh one (32 released buttons, 4 axes at 0) changed only by the
\* button and axis events after its latest Connected; get_gamepads returns
\* the entries by ascending index; button and axis events of an id that is
\* not in the map change nothing
C31_GamepadsFollowConnections ==
    /\ [](/\ DOMAIN gamepads = ConnectedIds
          /\ \A id \in DOMAIN gamepads :
                LET since == {i \in (LastPlug(id) + 1)..Len(drained) : hw_log[i].id = id}
                IN /\ gamepads[id].index = id
                   /\ gamepads[id].connected
                   /\ \A s \in 0..31 :
                         gamepads[id].buttons[s] =
                            \E i \in since :
                               /\ hw_log[i].type = "ButtonPressed"
                               /\ hw_log[i].button \in map_button_to_gamepad
                               /\ ButtonSlot[hw_log[i].button] = s
                   /\ \A a \in 0..3 :
                         (gamepads[id].axes[a] # 0) =
                            \E i \in since :
                               /\ hw_log[i].type = "AxisChanged"
                               /\ hw_log[i].button \in map_axis_to_gamepad
                               /\ GamepadAxisIndex[hw_log[i].button] = a)
    /\ [][gamepads_call' # gamepads_call =>
            LET ret == gamepads_call'.ret
            IN /\ Len(ret) = Cardinality(DOMAIN gamepads)
               /\ \A id \in DOMAIN gamepads : \E i \in DOMAIN ret : ret[i] = gamepads[id]
               /\ \A i, j \in DOMAIN ret : i < j => ret[i].index < ret[j].index]_vars
    /\ [][(/\ NewlyDrained # {}
           /\ \A i \in NewlyDrained :
                 /\ hw_log[i].type \in {"ButtonPressed", "AxisChanged"}
                 /\ hw_log[i].id \notin DOMAIN gamepads)
            => gamepads' = gamepads]_vars

\* the map yields gamepad 1 before gamepad 0 and get_gamepads has returned
\* them by index; a button event of gamepad 1 drained before its Connected
\* left no trace
C31_Witness ==
    /\ Len(drained) = 3
    /\ hw_log[1].type = "ButtonPressed" /\ hw_log[1].id = 1
    /\ hw_log[1].button = "South"
    /\ gamepads_order = <<1, 0>>
    /\ gamepads_call.op = "get_gamepads"
    /\ gamepads_call.ret = <<gamepads[0], gamepads[1]>>
    /\ ~gamepads[1].buttons[0]

\* C32: every stored axis value of every gamepad snapshot is within [-1, 1]
\* (hundredths: -100..100), every snapshot has 32 button slots and 4 axes, and
\* an event of a button or axis that has no index leaves the snapshots
\* unchanged
C32_SnapshotShape ==
    /\ [](\A id \in DOMAIN gamepads :
            /\ DOMAIN gamepads[id].buttons = 0..31
            /\ DOMAIN gamepads[id].axes = 0..3
            /\ \A a \in 0..3 : gamepads[id].axes[a] \in -100..100)
    /\ [][(/\ NewlyDrained # {}
           /\ \A i \in NewlyDrained :
                 \/ /\ hw_log[i].type = "ButtonPressed"
                    /\ hw_log[i].button \notin map_button_to_gamepad
                 \/ /\ hw_log[i].type = "AxisChanged"
                    /\ hw_log[i].button \notin map_axis_to_gamepad)
            => gamepads' = gamepads]_vars

\* a reading of 1.5 was stored as 1.0 and an event of an axis without index
\* was drained after it
C32_Witness ==
    /\ Len(drained) = 3
    /\ hw_log[1].type = "Connected" /\ hw_log[1].id = 0
    /\ hw_log[2].type = "AxisChanged" /\ hw_log[2].button = "LeftStickX"
    /\ hw_log[2].value = 150
    /\ hw_log[3].type = "AxisChanged" /\ hw_log[3].button = "LeftZ"
    /\ gamepads[0].axes = [a \in 0..3 |-> IF a = 0 THEN 100 ELSE 0]

\* C38: from every state in which the mode is Motion or Hotkey, some
\* sequence of button events (RB+Y in Motion, LB+Y in Hotkey, pressed and
\* released) makes the loop set the mode back to Normal
C38_ExitReachable ==
    \A t \in DOMAIN threads :
        (threads[t].pc = "check" /\ current_mode(mode_manager) \in ExitModes)
            => exit_reachable({exit_tick(ExitState(t), Pending, now)}, MaxHwEvents)

\* what holds instead: the loop never asks the mode manager for Normal, and
\* no step takes the mode from Motion or Hotkey to Normal
ModeNeverBackToNormal ==
    /\ [](\A i \in DOMAIN dispatched :
            dispatched[i].route = "switch_mode" => dispatched[i].action.name # "Normal")
    /\ [][current_mode(mode_manager) \in ExitModes
            => current_mode(mode_manager') \in ExitModes]_vars

\* the gamepad of the map that connected first
FirstConnected ==
    CHOOSE id \in DOMAIN gamepads :
        \A other \in DOMAIN gamepads : LastPlug(id) <= LastPlug(other)

\* C33: with several gamepads connected, the gamepad that drives a tick is
\* the one that connected first among those still connected, and it is the
\* same in every tick while no gamepad connects or disconnects
C33_PrimaryIsFirstConnected ==
    /\ [](\A t \in DOMAIN threads :
            threads[t].primary # <<>> => threads[t].primary[1] = FirstConnected)
    /\ [][\A t \in DOMAIN threads :
            (/\ threads[t].primary # <<>>
             /\ threads'[t].primary # <<>>
             /\ \A i \in NewlyDrained :
                   hw_log[i].type \notin {"Connected", "Disconnected"})
                => threads'[t].primary = threads[t].primary]_vars

\* the second half of C33 alone: the choice is stable between two ticks with
\* no Connected / Disconnected event
PrimaryStable ==
    [][\A t \in DOMAIN threads :
            (/\ threads[t].primary # <<>>
             /\ threads'[t].primary # <<>>
             /\ \A i \in NewlyDrained :
                   hw_log[i].type \notin {"Connected", "Disconnected"})
                => threads'[t].primary = threads[t].primary]_vars

----------------------------------------------------------------------------
(* Claims about the classification of button input *)

\* the number of dispatched entries that satisfy P
Count(P(_)) == Cardinality({k \in DOMAIN dispatched : P(dispatched[k])})

\* the i-th hardware event is of this type on this button
IsEv(i, type, button) ==
    /\ i <= Len(hw_log)
    /\ hw_log[i].type = type
    /\ hw_log[i].button = button

\* C8: in Normal mode a press of South (Tap = MouseClick, no DoubleTap
\* binding) followed by its release within 150 ms executes the bound action
\* exactly once.  Stated for a press that a tick has seen before the release
\* arrives, once the release has been handled too.
C8_TapExecutesOnce ==
    (/\ Len(hw_log) = 3
     /\ IsEv(1, "Connected", "none")
     /\ IsEv(2, "ButtonPressed", "South")
     /\ IsEv(3, "ButtonReleased", "South")
     /\ hw_log[3].at - hw_log[2].at <= 150
     /\ Len(drained) = 3
     /\ drained[2] < hw_log[3].at)
        => Count(LAMBDA d : /\ d.route = "execute_action"
                            /\ d.button = "South"
                            /\ d.action = Action("MouseClick")) = 1

\* C9: in Normal mode, RB and then North pressed within the 100 ms chord
\* window switch the mode manager to Motion exactly once, and no SingleButton
\* binding of RB or of North is executed.
C9_ChordSwitchesToMotion ==
    (/\ Len(hw_log) = 3
     /\ IsEv(1, "Connected", "none")
     /\ IsEv(2, "ButtonPressed", "RB")
     /\ IsEv(3, "ButtonPressed", "North")
     /\ hw_log[3].at - hw_log[2].at <= 100
     /\ Len(drained) = 3)
        => /\ Count(LAMBDA d : /\ d.route = "switch_mode"
                               /\ d.action = SwitchMode("Motion")
                               /\ d.ret) = 1
           /\ mode_manager.state.current = "Motion"
           /\ Count(LAMBDA d : d.button \in {"RB", "North"}) = 0

\* C10: in Normal mode, when North is pressed and still held when a tick runs
\* 500 ms or more after the press, exactly one SwitchMode(Hotkey) has been
\* dispatched and the current mode is Hotkey; after the later release, whatever
\* else was dispatched for North was resolved in Hotkey mode.
C10_HoldSwitchesToHotkey ==
    (/\ IsEv(1, "Connected", "none")
     /\ IsEv(2, "ButtonPressed", "North")
     /\ Len(hw_log) = 2 \/ (Len(hw_log) = 3 /\ IsEv(3, "ButtonReleased", "North"))
     /\ Len(drained) >= 2)
        => /\ (/\ Len(drained) = 2
               /\ \E t \in DOMAIN threads :
                      threads[t].tick_at >= hw_log[2].at + 500)
                 => /\ Count(LAMBDA d : /\ d.route = "switch_mode"
                                        /\ d.action = SwitchMode("Hotkey")
                                        /\ d.ret) = 1
                    /\ mode_manager.state.current = "Hotkey"
           /\ (Len(drained) = 3 /\ hw_log[3].at >= hw_log[2].at + 500)
                 => Count(LAMBDA d : /\ d.button = "North"
                                     /\ d.action # SwitchMode("Hotkey")
                                     /\ d.mode # "Hotkey") = 0

\* C11: a completed press of duration d is classified at its falling edge,
\* Tap iff d <= 150, LongHold iff d >= 500, Hold otherwise, and the pattern
\* looked up in the registry carries that timing: when the Normal registry
\* binds the button with that timing, that binding's action, and no other
\* binding of the button, is what the press dispatches.  Stated for a press
\* that a tick has seen before the release arrives.
C11_ClassifiedByDuration ==
    \A b \in HwButtons :
        (/\ Len(hw_log) = 3
         /\ IsEv(1, "Connected", "none")
         /\ IsEv(2, "ButtonPressed", b)
         /\ IsEv(3, "ButtonReleased", b)
         /\ Len(drained) = 3
         /\ drained[2] < hw_log[3].at)
            => LET d == hw_log[3].at - hw_log[2].at
                   timing ==
                       IF d <= InputTiming_default.tap_threshold_ms THEN "Tap"
                       ELSE IF d >= InputTiming_default.long_hold_threshold_ms
                            THEN "LongHold" ELSE "Hold"
                   pattern == SingleButton(b, timing)
                   bindings == get_mode_bindings("Normal")
               IN  has_binding(bindings, pattern) =>
                       /\ Count(LAMBDA e : /\ e.button = b
                                           /\ e.action = get_binding(bindings, pattern).action) = 1
                       /\ Count(LAMBDA e : /\ e.button = b
                                           /\ e.action # get_binding(bindings, pattern).action) = 0

----------------------------------------------------------------------------
(* Claims about what one tick dispatches *)

\* the calls made by the tick that the step is
NewCalls == SubSeq(dispatched', Len(dispatched) + 1, Len(dispatched'))

\* C12: when two enabled bindings of the current mode match the same input
\* event, the action dispatched is the one of higher priority, never the
\* other.  Stated for a button press that completes a chord: whenever the
\* loop runs the Tap binding of a button, the registry of that mode holds no
\* enabled Chord binding of higher priority that contains the button and has
\* all its buttons down.
C12_HigherPriorityWins ==
    [][\A i \in DOMAIN NewCalls :
        LET e == NewCalls[i]
            bindings == get_mode_bindings(e.mode)
            chosen == get_binding(bindings, SingleButton(e.button, "Tap"))
        IN  (e.route = "execute_action" /\ e.button \in GamepadButtonIndex) =>
                \A k \in DOMAIN bindings, id \in DOMAIN gamepads' :
                    ~(/\ bindings[k].enabled
                      /\ bindings[k].pattern.variant = "Chord"
                      /\ \E j \in DOMAIN bindings[k].pattern.buttons :
                             bindings[k].pattern.buttons[j] = e.button
                      /\ \A j \in DOMAIN bindings[k].pattern.buttons :
                             get_button(gamepads'[id], bindings[k].pattern.buttons[j])
                      /\ bindings[k].priority > chosen.priority)]_vars

\* C13: at the moment the loop calls the executor for a dispatched action the
\* loop thread holds none of the shared locks (gamepads map, mode state,
\* profiles, running flag).
C13_NoLockAcrossExecutor ==
    \A i \in DOMAIN dispatched :
        dispatched[i].route = "execute_action" => dispatched[i].locks = {}

\* the step is a tick in which an executor call returned an error or panicked
FailedAction ==
    \E i \in DOMAIN NewCalls :
        /\ NewCalls[i].route = "execute_action"
        /\ NewCalls[i].result \in {"Err", "Panic"}

\* C14: when the execution of a dispatched action panics or returns an error,
\* the loop thread stays alive and goes on to its next tick, and the mode state
\* and the gamepads map are as they were before the action (the mode state
\* when the tick made no accepted mode switch, the map when the tick had no
\* event left to handle).
C14_FailedActionContained ==
    [][FailedAction =>
        /\ \A t \in DOMAIN threads :
               threads[t].pc = "check" => threads'[t].pc = "check"
        /\ running' /\ gilrs' = gilrs
        /\ (\A i \in DOMAIN NewCalls :
               ~(NewCalls[i].route = "switch_mode" /\ NewCalls[i].ret))
                => mode_manager' = mode_manager
        /\ Len(drained) = Len(hw_log) => gamepads' = gamepads]_vars

\* an action panicked, the thread is at the loop head with the flag set, and
\* a later tick has moved the cursor
C14_Witness ==
    /\ running
    /\ \E t \in DOMAIN threads : threads[t].pc = "check" /\ threads[t].gilrs_instance
    /\ \E i, j \in DOMAIN dispatched :
          /\ i < j
          /\ dispatched[i].route = "execute_action"
          /\ dispatched[i].result = "Panic"
          /\ dispatched[j].route = "mouse_move_relative"

\* C15: within one tick every button is resolved against the registry of the
\* mode that was current at the start of the tick; a mode switch made during
\* the tick does not change the registry used by the rest of the tick.
C15_TickUsesStartMode ==
    [][\A i \in DOMAIN NewCalls :
        LET e == NewCalls[i]
            bindings == get_mode_bindings(mode_manager.state.current)
        IN  /\ e.mode = mode_manager.state.current
            /\ (e.route \in {"execute_action", "switch_mode"}
                   /\ e.button \in GamepadButtonIndex) =>
                  /\ has_binding(bindings, SingleButton(e.button, "Tap"))
                  /\ e.action = get_binding(bindings, SingleButton(e.button, "Tap")).action]_vars

\* a tick that began in Normal mode switched to Motion and then ran North's
\* Normal binding
C15_Witness ==
    \E i, j \in DOMAIN dispatched :
        /\ i < j
        /\ dispatched[i].route = "switch_mode" /\ dispatched[i].ret
        /\ dispatched[i].action = SwitchMode("Motion")
        /\ dispatched[j].route = "execute_action"
        /\ dispatched[j].button = "North"
        /\ dispatched[j].action = Action("AppLauncher")
        /\ mode_manager.state.current = "Motion"

\* C16: within a single tick the cursor move and the scroll derived from the
\* sticks are emitted before any button-bound action (executor call or mode
\* switch) of that tick.
C16_SticksBeforeButtons ==
    [][\A i, j \in DOMAIN NewCalls :
        (/\ NewCalls[i].route \in {"execute_action", "switch_mode"}
         /\ NewCalls[j].route \in {"mouse_move_relative", "scroll"})
            => j < i]_vars

\* a tick has moved the cursor and then run a button's binding
C16_Witness ==
    /\ Len(dispatched) >= 2
    /\ dispatched[1].route = "mouse_move_relative"
    /\ dispatched[2].route \in {"execute_action", "switch_mode"}

----------------------------------------------------------------------------
(* A key-binding registry driven by its callers *)

\* the bindings the callers add
RegBindings ==
    {KeyBinding(Chord(<<"RB", "North">>), SwitchMode("Motion"), "Normal", 70),
     KeyBinding(Chord(<<"North", "RB">>), Action("AppLauncher"), "Normal", 50),
     KeyBinding(SingleButton("North", "Tap"), Action("AppLauncher"), "Normal", 50),
     with_enabled(KeyBinding(SingleButton("North", "Tap"), Action("MouseClick"),
                             "Normal", 60), FALSE),
     KeyBinding(Sequence("South", "North", 2000), Action("Screenshot"), "Normal", 80)}

\* the patterns the callers remove and look up
RegPatterns == {b.pattern : b \in RegBindings}

\* the buttons the callers ask bindings for
RegButtons == {"North", "RB"}

RegWrite(new_registry, op, arg) ==
    /\ Len(reg_log) < MaxRegOps
    /\ key_bindings' = new_registry
    /\ reg_log' = Append(reg_log, [op |-> op, arg |-> arg])
    /\ reg_query' = Query_idle
    /\ UNCHANGED <<managerVars, profileVars, emitter, modeVars, lifeVars, inputVars>>

RegRead(op, arg, ret) ==
    /\ reg_query' = [op |-> op, arg |-> arg, ret |-> ret]
    /\ UNCHANGED <<managerVars, key_bindings, reg_log, profileVars, emitter, modeVars,
                   lifeVars, inputVars>>

CallAddBinding ==
    \E binding \in RegBindings :
        RegWrite(add_binding(key_bindings, binding), "add_binding", binding)

CallRemoveBinding ==
    \E pattern \in RegPatterns :
        RegWrite(remove_binding(key_bindings, pattern).registry,
                 "remove_binding", pattern)

CallClear == RegWrite(clear(key_bindings), "clear", "none")

CallGetBinding ==
    \E pattern \in RegPatterns :
        RegRead("get_binding", pattern, get_binding_opt(key_bindings, pattern))

CallLen == RegRead("len", "none", len(key_bindings))

CallBindingsForButton ==
    \E button \in RegButtons, order \in value_orders(DOMAIN key_bindings) :
        RegRead("bindings_for_button", button,
                bindings_for_button(key_bindings, order, button))

NextRegistry ==
    \/ CallAddBinding
    \/ CallRemoveBinding
    \/ CallClear
    \/ CallGetBinding
    \/ CallLen
    \/ CallBindingsForButton

SpecRegistry == Init /\ [][NextRegistry]_vars

----------------------------------------------------------------------------
(* Claims about the key-binding registry *)

SameButtons(p, q) ==
    {p.buttons[i] : i \in DOMAIN p.buttons} = {q.buttons[i] : i \in DOMAIN q.buttons}

\* C21: registry keys are canonical: two Chord patterns over the same set of
\* buttons are one key, so a chord added in one order is found by
\* get_binding in any order, and adding both orders leaves one binding
C21_ChordKeyCanonical ==
    /\ \A k1, k2 \in DOMAIN key_bindings :
          (/\ key_bindings[k1].pattern.variant = "Chord"
           /\ key_bindings[k2].pattern.variant = "Chord"
           /\ SameButtons(key_bindings[k1].pattern, key_bindings[k2].pattern))
          => k1 = k2
    /\ (reg_query.op = "get_binding" /\ reg_query.arg.variant = "Chord") =>
          \A k \in DOMAIN key_bindings :
              (/\ key_bindings[k].pattern.variant = "Chord"
               /\ SameButtons(key_bindings[k].pattern, reg_query.arg))
              => reg_query.ret = <<key_bindings[k]>>

\* what the calls made so far leave bound to a pattern: the binding of the
\* last add_binding of the pattern, unless a remove_binding of the pattern or
\* a clear came after it
Bound(pattern) ==
    LET adds == {i \in DOMAIN reg_log :
                    /\ reg_log[i].op = "add_binding"
                    /\ reg_log[i].arg.pattern = pattern
                    /\ \A j \in (i + 1)..Len(reg_log) :
                          /\ reg_log[j].op # "clear"
                          /\ ~(reg_log[j].op = "remove_binding"
                               /\ reg_log[j].arg = pattern)}
    IN IF adds = {} THEN <<>>
       ELSE <<reg_log[CHOOSE i \in adds : \A j \in adds : j <= i].arg>>

\* C22: after any sequence of add_binding / remove_binding / clear the
\* registry holds at most one binding per pattern, get_binding(p) returns the
\* most recently added binding of p not since removed or cleared, and len()
\* is the number of patterns bound
C22_RegistryIsMap ==
    /\ \A k1, k2 \in DOMAIN key_bindings :
          key_bindings[k1].pattern = key_bindings[k2].pattern => k1 = k2
    /\ reg_query.op = "get_binding" => reg_query.ret = Bound(reg_query.arg)
    /\ reg_query.op = "len" =>
          reg_query.ret = Cardinality({p \in RegPatterns : Bound(p) # <<>>})

\* an overwritten pattern is looked up, and len is read after a removal
C22_Witness ==
    /\ reg_query.op = "get_binding"
    /\ reg_query.ret # <<>>
    /\ \E i, j \in DOMAIN reg_log :
          /\ i < j
          /\ reg_log[i].op = "add_binding" /\ reg_log[j].op = "add_binding"
          /\ reg_log[i].arg.pattern = reg_query.arg
          /\ reg_log[j].arg.pattern = reg_query.arg
          /\ reg_log[i].arg # reg_log[j].arg

\* C23: bindings_for_button(b) returns exactly the enabled bindings of the
\* registry whose pattern contains b (the single button, a chord member, the
\* first or the second button of a sequence), priorities non-increasing
C23_BindingsForButton ==
    reg_query.op = "bindings_for_button" =>
        LET r == reg_query.ret
            b == reg_query.arg
            Has(pattern) ==
                CASE pattern.variant \in {"SingleButton", "ModifiedButton"} ->
                       pattern.buttons[1] = b
                  [] pattern.variant = "Chord" ->
                       \E i \in DOMAIN pattern.buttons : pattern.buttons[i] = b
                  [] pattern.variant = "Sequence" ->
                       pattern.buttons[1] = b \/ pattern.buttons[2] = b
            expected == {key_bindings[k] : k \in
                           {k \in DOMAIN key_bindings :
                               key_bindings[k].enabled /\ Has(key_bindings[k].pattern)}}
        IN /\ {r[i] : i \in DOMAIN r} = expected
           /\ Len(r) = Cardinality(expected)
           /\ \A i, j \in DOMAIN r : i < j => r[i].priority >= r[j].priority

\* a query that returns bindings of different priorities out of a registry
\* that also holds a disabled binding of the button
C23_Witness ==
    /\ reg_query.op = "bindings_for_button"
    /\ Len(reg_query.ret) >= 2
    /\ reg_query.ret[1].priority > reg_query.ret[Len(reg_query.ret)].priority
    /\ \E k \in DOMAIN key_bindings :
          /\ ~key_bindings[k].enabled
          /\ contains_button(key_bindings[k].pattern, reg_query.arg)

----------------------------------------------------------------------------
(* Claims about the executor *)

C29_ExecutorPropagatesFailure ==
    (emitter.pc = "returned" /\ emitter.fn = "execute_action") =>
        /\ (\E i \in DOMAIN emitter.emitted : emitter.emitted[i].ret = "Err")
              => emitter.ret = "Err"
        /\ emitter.ret = "Ok" =>
              \A i \in DOMAIN emitter.emitted : emitter.emitted[i].ret = "Ok"

\* C30: VolumeUp{amount} raises and VolumeDown{amount} lowers the volume of
\* the OS by amount from its current level (within 0..100), and every level
\* emitted to the OS is within 0..100 (with the platform's command available)
C30_VolumeRelative ==
    (/\ emitter.pc = "returned" /\ emitter.fn = "execute_action"
     /\ emitter.action.kind \in {"VolumeUp", "VolumeDown"}
     /\ emitter.os_ok) =>
        LET amount == IF emitter.action.kind = "VolumeUp"
                      THEN emitter.action.v ELSE -emitter.action.v
            target == emitter.volume_before + amount
            expected == IF target < 0 THEN 0 ELSE IF target > 100 THEN 100 ELSE target
        IN /\ emitter.volume = expected
           /\ \A i \in DOMAIN emitter.posted :
                 emitter.posted[i].amount \in 0..100

----------------------------------------------------------------------------
(* Claims about the profiles *)

\* the step is a call of this operation of the profile API
ProfileCallStep(op) ==
    profile_call' # profile_call /\ profile_call'.op = op

\* C24: set_active_profile(name) returns an error and leaves the active name
\* and the cache unchanged when the cache has no profile of that name;
\* otherwise it returns success and the active name becomes name
C24_SetActiveProfile ==
    [][ProfileCallStep("set_active_profile") =>
         IF profile_call'.arg.name \notin DOMAIN profiles
         THEN /\ profile_call'.ret = "Err"
              /\ active_profile' = active_profile
              /\ profiles' = profiles
         ELSE /\ profile_call'.ret = "Ok"
              /\ active_profile' = profile_call'.arg.name]_vars

\* a name that was activated earlier is refused after its profile was deleted
C24_Witness ==
    /\ profile_call.op = "set_active_profile"
    /\ profile_call.ret = "Err"
    /\ profile_call.arg.name = "Fast"
    /\ active_profile = "Fast"

\* C25: delete_profile("Default") fails and changes neither cache nor store,
\* so the cache always holds a profile named "Default"; for any other name
\* delete_profile removes the name from the cache and from the store
C25_DeleteProfile ==
    [][/\ "Default" \in DOMAIN profiles'
       /\ ProfileCallStep("delete_profile") =>
            IF profile_call'.arg.name = "Default"
            THEN /\ profile_call'.ret = "Err"
                 /\ profiles' = profiles
                 /\ db' = db
            ELSE /\ profile_call'.arg.name \notin DOMAIN profiles'
                 /\ profile_call'.arg.name \notin DOMAIN db'.rows]_vars

\* C26: after any sequence of save_profile, delete_profile and
\* set_active_profile calls the active name is the name of a cached profile
C26_ActiveProfileCached == active_profile \in DOMAIN profiles

\* C27: when the store write fails during save_profile(p) the call returns an
\* error while the cache holds p under p.name; when the store write succeeds
\* the call returns success
C27_SaveReportsStoreFailure ==
    [][(ProfileCallStep("save_profile") /\ db.available) =>
         /\ profiles'[profile_call'.arg.name] = profile_call'.arg
         /\ profile_call'.ret = IF profile_call'.db_ok THEN "Ok" ELSE "Err"]_vars

\* C34: every acquisition of a manager mutex recovers the value of a poisoned
\* mutex: after some thread has panicked while holding one, no command
\* (save_profile included) panics on acquiring it
C34_PoisonedLocksRecovered ==
    profile_call.op \in {"save_profile", "set_active_profile", "delete_profile",
                         "set_database"}
        => profile_call.ret # "Panic"

\* C37: the threads never deadlock: no thread locks a mutex it already holds
\* and no mutex is held for ever
C37_NoDeadlock ==
    /\ locks.stuck = {}
    /\ profile_call.op # "none" => profile_call.ret \notin RelockOutcomes

----------------------------------------------------------------------------
(* Claims about the stick translation and the pointer emitters *)

\* C17: a stick component within the dead-zone (the active profile's dead_zone
\* when it is non-zero, 0.05 otherwise) yields a cursor delta and a scroll
\* amount of exactly 0 in the tick, whatever the other component of the stick
C17_DeadZoneGivesZero ==
    [][\A i \in DOMAIN NewCalls : \A id \in DOMAIN gamepads' :
         LET e == NewCalls[i]
             pad == gamepads'[id]
             profile == profiles[active_profile]
             dead_zone == IF profile.dead_zone # 0 THEN profile.dead_zone ELSE 5
             inside(axis) == abs_i32(get_axis(pad, axis)) <= dead_zone
         IN /\ e.route = "mouse_move_relative" =>
                 /\ inside("LeftStickX") => e.action.v = 0
                 /\ inside("LeftStickY") => e.action.h = 0
            /\ e.route = "scroll" =>
                 /\ inside("RightStickY") => e.action.v = 0
                 /\ inside("RightStickX") => e.action.h = 0]_vars

\* C18: a left-stick component v outside the dead-zone moves the cursor by
\* trunc(v * 10 * sensitivity * acceleration) of the active profile, the Y
\* component with its sign inverted
C18_CursorDelta ==
    [][\A i \in DOMAIN NewCalls : \A id \in DOMAIN gamepads' :
         LET e == NewCalls[i]
             pad == gamepads'[id]
             profile == profiles[active_profile]
             dead_zone == IF profile.dead_zone # 0 THEN profile.dead_zone ELSE 5
             outside(axis) == abs_i32(get_axis(pad, axis)) > dead_zone
             scaled(axis) == get_axis(pad, axis) * 10 * profile.sensitivity
                             * profile.acceleration
             delta(axis) == IF scaled(axis) >= 0
                            THEN scaled(axis) \div 1000000
                            ELSE -((-scaled(axis)) \div 1000000)
         IN e.route = "mouse_move_relative" =>
              /\ outside("LeftStickX") => e.action.v = delta("LeftStickX")
              /\ outside("LeftStickY") => e.action.h = -delta("LeftStickY")]_vars

\* C19: no pointer move of (0, 0) reaches the OS and scroll(0, 0) posts no
\* scroll event, through the executor's MouseMove and MouseScroll and through
\* the loop's translation of the sticks
C19_NoZeroOsCall ==
    /\ \A platform \in Platforms, os_ok \in BOOLEAN :
          /\ move_cursor(platform, os_ok, 0, 0).posted = <<>>
          /\ mouse_scroll(platform, os_ok, 0, 0).posted = <<>>
    /\ \A i \in DOMAIN dispatched :
          LET e == dispatched[i]
          IN /\ e.route = "mouse_move_relative" =>
                  ~(e.action.v = 0 /\ e.action.h = 0)
             /\ e.route = "scroll" /\ e.action.v = 0 /\ e.action.h = 0 =>
                  \A platform \in Platforms, os_ok \in BOOLEAN :
                      scroll_scroll(platform, os_ok, 0, 0).posted = <<>>

\* C20: scroll(v, h) posts the vertical magnitude as notches of 120: for
\* |v| >= 120 it posts floor(|v| / 120) events of one notch each, all in the
\* direction of sign(v); no horizontal event when h = 0 and no vertical event
\* when v = 0 (with the platform's event source available)
C20_ScrollNotches ==
    (emitter.pc = "returned" /\ emitter.fn = "scroll::scroll" /\ emitter.os_ok) =>
        LET v == emitter.a
            h == emitter.b
            IsVertical(e) == e.axis = "vertical"
            IsHorizontal(e) == e.axis = "horizontal"
            vertical == SelectSeq(emitter.posted, IsVertical)
            horizontal == SelectSeq(emitter.posted, IsHorizontal)
            direction == IF v > 0 THEN 1 ELSE -1
        IN /\ abs_i32(v) >= 120 =>
                /\ Len(vertical) = abs_i32(v) \div 120
                /\ \A i \in DOMAIN vertical : vertical[i].amount = 120 * direction
           /\ h = 0 => horizontal = <<>>
           /\ v = 0 => vertical = <<>>

====
